---- MODULE Spec2Model ----
(***************************************************************************)
(* Model of the template store of promptdev (src/src/prompts.py) over its  *)
(* two PostgreSQL tables system_prompt and prompt_version_history.         *)
(*                                                                         *)
(* Spec      every store call is one action: the call runs alone on its    *)
(*           pooled connection from its first statement to commit,         *)
(*           rollback or the rollback done by put_conn.                    *)
(* SpecConc  update_template / rollback_to_version run statement by        *)
(*           statement on several connections under READ COMMITTED, the    *)
(*           isolation level the pool's connections are left at.           *)
(***************************************************************************)
EXTENDS Integers, Sequences, FiniteSets, Bags, TLC

\* ------------------------------------------------------------------------
\* Bounds
\* ------------------------------------------------------------------------
\* ids the SERIAL sequence of system_prompt hands out
MaxId == 2
\* rows the ledger holds at one time
MaxRows == 3
\* connections running update_template / rollback_to_version at one time
NumWriters == 2

\* ------------------------------------------------------------------------
\* Values
\* ------------------------------------------------------------------------
\* tenant_id IS NULL : the system scope
NULL == "NULL"
TenantA == "tA"
TenantB == "tB"
Tenants == {NULL, TenantA, TenantB}

\* a name is a sequence of pieces, so that source.name + "_clone" is Append
DefaultName == <<"default">>
CommonName == <<"common">>
Names == {DefaultName, CommonName}
\* names for which `not name or not name.strip()` is true
BlankNames == {<< >>, <<" ">>}

\* template text as a sequence of lexer tokens
ContentA == <<"Hello", "{{", "name", "}}">>
ContentB == <<"Hi">>
ContentBad == <<"{{", "name">>
GoodContents == {ContentA, ContentB}
Contents == GoodContents \cup {ContentBad}

NoId == 0
Ids == 1..MaxId
Writers == 1..NumWriters

\* ------------------------------------------------------------------------
\* State
\* ------------------------------------------------------------------------
VARIABLES
    templates,  \* system_prompt: id -> row, for the ids that have a row
    history,    \* prompt_version_history: a bag of rows
    nextId,     \* next value of the SERIAL sequence of system_prompt.id
    last,       \* the most recent call of the store: operation, arguments, outcome
    conns,      \* SpecConc: the call each pooled connection is in the middle of
    ledgerUnique, \* whether the schema declares UNIQUE (template_id, version)
    guardrail_configs, \* the guardrail_configs table: id -> row
    nextConfigId, \* the sequence behind guardrail_configs.id
    conversation_history, \* the conversation_history table, in order of insertion
    user_memory, \* the user_memory table: a set of rows, one per (tenant, user, key)
    user_state, \* the user_state table: a set of rows, one per (tenant, user)
    clock,      \* the wall clock, as NOW() and datetime.now() read it
    llm_calls   \* the prompts sent to the language model

vars == <<templates, history, nextId, last, conns, ledgerUnique,
          guardrail_configs, nextConfigId,
          conversation_history, user_memory, user_state, clock, llm_calls>>
store == <<templates, history, nextId>>
guardrails == <<guardrail_configs, nextConfigId>>
chat_store == <<conversation_history, user_memory, user_state, clock, llm_calls>>

\* the guardrail_configs table holds no row
NoGuardrails == guardrail_configs = << >> /\ nextConfigId = 1

\* no message, memory entry or state row is stored and no prompt was sent
NoChat ==
    /\ conversation_history = << >>
    /\ user_memory = {}
    /\ user_state = {}
    /\ clock = 0
    /\ llm_calls = << >>

\* ------------------------------------------------------------------------
\* Helpers of prompts.py
\* ------------------------------------------------------------------------

\* _tenant_clause applied to a row: "tenant_id IS NULL" for the system
\* scope, "tenant_id = %s" otherwise (a NULL column never equals a value)
TenantClauseAny(row_tenant, tenant_id) == TRUE
TenantClause(row_tenant, tenant_id) ==
    IF tenant_id = NULL THEN row_tenant = NULL ELSE row_tenant = tenant_id

\* _validate_jinja2: env.parse(content) accepts the text when every opened
\* "{{" holds one name and is closed by "}}"
RECURSIVE ParseFrom(_, _)
ParseFrom(content, i) ==
    IF i > Len(content) THEN TRUE
    ELSE IF content[i] = "{{"
         THEN /\ i + 2 <= Len(content)
              /\ content[i + 1] \notin {"{{", "}}"}
              /\ content[i + 2] = "}}"
              /\ ParseFrom(content, i + 3)
         ELSE ParseFrom(content, i + 1)

ValidateAlways(content) == TRUE
_validate_jinja2(content) == ParseFrom(content, 1)

\* `not name or not name.strip()` of create_template
NameIsEmpty(name) == name \in BlankNames

\* a system_prompt row as _row_to_template reads it (cloned_from_id is NoId
\* where the column is NULL)
Template(name, content, version, tenant_id, cloned_from_id, cloned_from_tenant) ==
    [name |-> name, content |-> content, current_version |-> version,
     is_active |-> TRUE, tenant_id |-> tenant_id, is_shareable |-> FALSE,
     cloned_from_id |-> cloned_from_id, cloned_from_tenant |-> cloned_from_tenant]

\* a prompt_version_history row
TemplateVersion(tenant_id, template_id, version, content) ==
    [tenant_id |-> tenant_id, template_id |-> template_id,
     version |-> version, content |-> content]

\* ------------------------------------------------------------------------
\* Statements
\* ------------------------------------------------------------------------

\* WHERE id = %s AND {tenant_clause}
Matches(t, id, tenant_id) ==
    id \in DOMAIN t /\ TenantClause(t[id].tenant_id, tenant_id)

\* WHERE name = %s AND {tenant_clause}
MatchesNameAnyTenant(t, name, tenant_id) ==
    {id \in DOMAIN t : t[id].name = name}
MatchesName(t, name, tenant_id) ==
    {id \in DOMAIN t : t[id].name = name /\ TenantClause(t[id].tenant_id, tenant_id)}

\* the uniqueness of (tenant_id, name) in system_prompt, the system scope
\* counting as one tenant
UniqueViolationNever(t, tenant_id, name) == FALSE
UniqueViolation(t, tenant_id, name) ==
    \E id \in DOMAIN t : t[id].tenant_id = tenant_id /\ t[id].name = name

\* INSERT INTO system_prompt ... RETURNING id
InsertTemplate(t, id, row) == [i \in DOMAIN t \cup {id} |-> IF i = id THEN row ELSE t[i]]

\* INSERT INTO prompt_version_history
InsertHistory(h, row) == h (+) SetToBag({row})

\* the ledger rows of one template
RowsOf(h, id) == {r \in BagToSet(h) : r.template_id = id}

\* SELECT current_version FROM system_prompt WHERE id AND tenant; 0 = no row
SelectCurrentVersionAnyTenant(t, id, tenant_id) ==
    IF id \in DOMAIN t THEN t[id].current_version ELSE 0
SelectCurrentVersion(t, id, tenant_id) ==
    IF Matches(t, id, tenant_id) THEN t[id].current_version ELSE 0

\* new_version = row[0] + 1
NewVersionSame(current_version) == current_version
NewVersion(current_version) == current_version + 1

\* UPDATE system_prompt SET content, current_version WHERE id AND tenant
UpdateRowAndClones(t, id, tenant_id, content, new_version) ==
    IF Matches(t, id, tenant_id)
    THEN [i \in DOMAIN t |->
            IF i = id \/ t[i].cloned_from_id = id
            THEN [t[i] EXCEPT !.content = content, !.current_version = new_version]
            ELSE t[i]]
    ELSE t
UpdateRow(t, id, tenant_id, content, new_version) ==
    IF Matches(t, id, tenant_id)
    THEN [t EXCEPT ![id].content = content, ![id].current_version = new_version]
    ELSE t

\* UPDATE system_prompt SET is_active = flag WHERE id AND tenant
SetActive(t, id, tenant_id, flag) ==
    IF Matches(t, id, tenant_id) THEN [t EXCEPT ![id].is_active = flag] ELSE t

\* DELETE FROM system_prompt WHERE id AND tenant
DeleteRow(t, id, tenant_id) ==
    IF Matches(t, id, tenant_id) THEN [i \in DOMAIN t \ {id} |-> t[i]] ELSE t

\* the version history goes with a hard-deleted template
DeleteHistoryKeep(h, id) == h
DeleteHistory(h, id) ==
    [r \in {x \in DOMAIN h : x.template_id # id} |-> h[r]]

\* the outcome of a call
Outcome(op, tenant_id, id, arg, result, ret) ==
    [op |-> op, tenant |-> tenant_id, id |-> id, arg |-> arg,
     result |-> result, ret |-> ret]

OK == "ok"
TemplateNotFoundError == "TemplateNotFoundError"
TemplateSyntaxError == "TemplateSyntaxError"
PromptErrorEmptyName == "PromptError: Template name cannot be empty"
PromptErrorExists == "PromptError: Template name already exists"
PromptErrorFailed == "PromptError: Failed"
PromptErrorNotShareable == "PromptError: not shareable"

\* database errors as psycopg2 words them
UniqueViolationError == "duplicate key value violates unique constraint"
OperationalError == "server closed the connection unexpectedly"

\* except Exception as e: `if "unique" in str(e).lower()` picks the message
ClassifyErrorFailed(e) == PromptErrorFailed
ClassifyError(e) ==
    IF e = UniqueViolationError THEN PromptErrorExists ELSE PromptErrorFailed

\* update_template: raise PromptError(f"Failed to update template: {e}")
ClassifyErrorUpdate(e) == PromptErrorFailed

None == "None"

\* ------------------------------------------------------------------------
\* Init
\* ------------------------------------------------------------------------
Idle == [pc |-> "idle", op |-> None, tenant |-> NULL, id |-> NoId, arg |-> None,
         content |-> << >>, read |-> 0]

Init ==
    /\ templates = << >>
    /\ history = EmptyBag
    /\ nextId = 1
    /\ last = Outcome("init", NULL, NoId, None, OK, None)
    /\ conns = [w \in Writers |-> Idle]
    /\ ledgerUnique = TRUE
    /\ NoGuardrails
    /\ NoChat

\* ------------------------------------------------------------------------
\* The calls of the store, each run alone from its first statement to the
\* end of its transaction
\* ------------------------------------------------------------------------

\* create_template(name, content, tenant_id)
create_template(name, content, tenant_id) ==
    IF NameIsEmpty(name)
    THEN /\ last' = Outcome("create", tenant_id, NoId, name, PromptErrorEmptyName, None)
         /\ UNCHANGED <<templates, history, nextId>>
    ELSE IF ~_validate_jinja2(content)
    THEN /\ last' = Outcome("create", tenant_id, NoId, name, TemplateSyntaxError, None)
         /\ UNCHANGED <<templates, history, nextId>>
    ELSE /\ nextId <= MaxId /\ BagCardinality(history) < MaxRows
         \* the sequence hands out its value before the insert is checked
         /\ nextId' = nextId + 1
         /\ IF UniqueViolation(templates, tenant_id, name)
            THEN \* conn.rollback()
                 /\ last' = Outcome("create", tenant_id, NoId, name, ClassifyError(UniqueViolationError), None)
                 /\ UNCHANGED <<templates, history>>
            ELSE /\ templates' = InsertTemplate(templates, nextId,
                                     Template(name, content, 1, tenant_id, NoId, None))
                 /\ history' = InsertHistory(history,
                                     TemplateVersion(tenant_id, nextId, 1, content))
                 /\ last' = Outcome("create", tenant_id, nextId, name, OK, nextId)

\* get_template(template_id, tenant_id)
get_template(template_id, tenant_id) ==
    /\ IF Matches(templates, template_id, tenant_id)
       THEN last' = Outcome("get", tenant_id, template_id, None, OK, templates[template_id])
       ELSE last' = Outcome("get", tenant_id, template_id, None, TemplateNotFoundError, None)
    /\ UNCHANGED <<templates, history, nextId>>

\* get_template_by_name(name, tenant_id): fetchone() of the matching rows
get_template_by_name(name, tenant_id) ==
    /\ IF MatchesName(templates, name, tenant_id) # {}
       THEN \E id \in MatchesName(templates, name, tenant_id) :
                last' = Outcome("get_by_name", tenant_id, id, name, OK, templates[id])
       ELSE last' = Outcome("get_by_name", tenant_id, NoId, name, TemplateNotFoundError, None)
    /\ UNCHANGED <<templates, history, nextId>>

\* update_template(template_id, content, tenant_id), called as op
UpdateCall(op, arg, template_id, content, tenant_id) ==
    IF ~_validate_jinja2(content)
    THEN /\ last' = Outcome(op, tenant_id, template_id, arg, TemplateSyntaxError, None)
         /\ UNCHANGED <<templates, history, nextId>>
    ELSE LET current == SelectCurrentVersion(templates, template_id, tenant_id)
             new_version == NewVersion(current)
         IN IF current = 0
            THEN /\ last' = Outcome(op, tenant_id, template_id, arg, TemplateNotFoundError, None)
                 /\ UNCHANGED <<templates, history, nextId>>
            ELSE /\ BagCardinality(history) < MaxRows
                 /\ templates' = UpdateRow(templates, template_id, tenant_id, content, new_version)
                 /\ history' = InsertHistory(history,
                                   TemplateVersion(tenant_id, template_id, new_version, content))
                 /\ last' = Outcome(op, tenant_id, template_id, arg, OK, new_version)
                 /\ UNCHANGED nextId

update_template(template_id, content, tenant_id) ==
    UpdateCall("update", None, template_id, content, tenant_id)

\* get_version(template_id, version, tenant_id): the rows fetchone() may return
get_versionCurrent(t, h, template_id, version, tenant_id) ==
    IF Matches(t, template_id, tenant_id)
    THEN {r \in RowsOf(h, template_id) : r.version = t[template_id].current_version}
    ELSE {}
get_version(t, h, template_id, version, tenant_id) ==
    IF Matches(t, template_id, tenant_id)
    THEN {r \in RowsOf(h, template_id) : r.version = version}
    ELSE {}

\* rollback_to_version(template_id, version, tenant_id)
rollback_to_version(template_id, version, tenant_id) ==
    LET found == get_version(templates, history, template_id, version, tenant_id)
    IN IF found = {}
       THEN /\ last' = Outcome("rollback", tenant_id, template_id, version,
                               TemplateNotFoundError, None)
            /\ UNCHANGED <<templates, history, nextId>>
       ELSE \E old_version \in found :
                UpdateCall("rollback", version, template_id, old_version.content, tenant_id)

\* deactivate_template / activate_template
set_active(op, template_id, tenant_id, flag) ==
    /\ IF Matches(templates, template_id, tenant_id)
       THEN /\ templates' = SetActive(templates, template_id, tenant_id, flag)
            /\ last' = Outcome(op, tenant_id, template_id, None, OK, TRUE)
       ELSE /\ UNCHANGED templates
            /\ last' = Outcome(op, tenant_id, template_id, None, TemplateNotFoundError, None)
    /\ UNCHANGED <<history, nextId>>

deactivate_template(template_id, tenant_id) ==
    set_active("deactivate", template_id, tenant_id, FALSE)

activate_template(template_id, tenant_id) ==
    set_active("activate", template_id, tenant_id, TRUE)

\* delete_template(template_id, tenant_id): returns rowcount > 0
delete_template(template_id, tenant_id) ==
    /\ templates' = DeleteRow(templates, template_id, tenant_id)
    /\ history' = IF Matches(templates, template_id, tenant_id)
                  THEN DeleteHistory(history, template_id)
                  ELSE history
    /\ last' = Outcome("delete", tenant_id, template_id, None, OK,
                       Matches(templates, template_id, tenant_id))
    /\ UNCHANGED nextId

\* _clone_default_template_for_tenant: the system rows named 'default'
DefaultSource(t) == {id \in DOMAIN t : t[id].tenant_id = NULL /\ t[id].name = DefaultName}

\* the rows list_templates returns
Listed(t, include_inactive, tenant_id) ==
    {id \in DOMAIN t : /\ TenantClause(t[id].tenant_id, tenant_id)
                       /\ (include_inactive \/ t[id].is_active)}

\* list_templates(include_inactive, tenant_id)
list_templates(include_inactive, tenant_id) ==
    LET count == Cardinality({id \in DOMAIN templates :
                                TenantClause(templates[id].tenant_id, tenant_id)})
    IN IF count = 0 /\ tenant_id # NULL /\ DefaultSource(templates) # {}
       THEN \E source_id \in DefaultSource(templates) :
              /\ nextId <= MaxId /\ BagCardinality(history) < MaxRows
              /\ nextId' = nextId + 1
              /\ templates' = InsertTemplate(templates, nextId,
                                  Template(DefaultName, templates[source_id].content, 1,
                                           tenant_id, source_id, None))
              /\ history' = InsertHistory(history,
                                  TemplateVersion(tenant_id, nextId, 1,
                                                  templates[source_id].content))
              /\ last' = Outcome("list", tenant_id, NoId, include_inactive, OK,
                                 Listed(templates', include_inactive, tenant_id))
       ELSE /\ last' = Outcome("list", tenant_id, NoId, include_inactive, OK,
                               Listed(templates, include_inactive, tenant_id))
            /\ UNCHANGED <<templates, history, nextId>>

\* set_template_shareable(template_id, is_shareable, tenant_id)
set_template_shareable(template_id, is_shareable, tenant_id) ==
    /\ templates' = IF Matches(templates, template_id, tenant_id)
                    THEN [templates EXCEPT ![template_id].is_shareable = is_shareable]
                    ELSE templates
    /\ last' = Outcome("share", tenant_id, template_id, is_shareable, OK,
                       Matches(templates, template_id, tenant_id))
    /\ UNCHANGED <<history, nextId>>

\* clone_name = new_name or f"{source.name}_clone"
CloneName(source_name, new_name) ==
    IF new_name = None \/ new_name = << >> THEN Append(source_name, "_clone") ELSE new_name

\* `if not source.is_shareable` of clone_template
IsShareableAny(source) == TRUE
IsShareable(source) == source.is_shareable

\* clone_template(source_template_id, tenant_id, new_name)
clone_template(source_template_id, tenant_id, new_name) ==
    IF source_template_id \notin DOMAIN templates
    THEN /\ last' = Outcome("clone", tenant_id, source_template_id, new_name,
                            TemplateNotFoundError, None)
         /\ UNCHANGED <<templates, history, nextId>>
    ELSE LET source == templates[source_template_id]
             clone_name == CloneName(source.name, new_name)
         IN IF ~IsShareable(source)
            THEN /\ last' = Outcome("clone", tenant_id, source_template_id, new_name,
                                    PromptErrorNotShareable, None)
                 /\ UNCHANGED <<templates, history, nextId>>
            ELSE /\ nextId <= MaxId /\ BagCardinality(history) < MaxRows
                 /\ nextId' = nextId + 1
                 /\ IF UniqueViolation(templates, tenant_id, clone_name)
                    THEN /\ last' = Outcome("clone", tenant_id, source_template_id, new_name,
                                            ClassifyError(UniqueViolationError), None)
                         /\ UNCHANGED <<templates, history>>
                    ELSE /\ templates' = InsertTemplate(templates, nextId,
                                             Template(clone_name, source.content, 1, tenant_id,
                                                      source_template_id, source.tenant_id))
                         /\ history' = InsertHistory(history,
                                             TemplateVersion(tenant_id, nextId, 1, source.content))
                         /\ last' = Outcome("clone", tenant_id, source_template_id, new_name,
                                            OK, nextId)

\* ------------------------------------------------------------------------
\* Next
\* ------------------------------------------------------------------------
Create ==
    /\ \E name \in {CommonName} \cup BlankNames, content \in Contents, tenant_id \in Tenants :
           create_template(name, content, tenant_id)
    /\ UNCHANGED <<conns, ledgerUnique, guardrails, chat_store>>
CreateDefault ==
    /\ \E content \in GoodContents : create_template(DefaultName, content, NULL)
    /\ UNCHANGED <<conns, ledgerUnique, guardrails, chat_store>>
Get ==
    /\ \E id \in Ids, tenant_id \in Tenants : get_template(id, tenant_id)
    /\ UNCHANGED <<conns, ledgerUnique, guardrails, chat_store>>
GetByName ==
    /\ \E name \in {CommonName}, tenant_id \in Tenants : get_template_by_name(name, tenant_id)
    /\ UNCHANGED <<conns, ledgerUnique, guardrails, chat_store>>
Update ==
    /\ \E id \in Ids, content \in Contents, tenant_id \in Tenants :
           update_template(id, content, tenant_id)
    /\ UNCHANGED <<conns, ledgerUnique, guardrails, chat_store>>
Rollback ==
    /\ \E id \in Ids, version \in 1..MaxRows, tenant_id \in Tenants :
           rollback_to_version(id, version, tenant_id)
    /\ UNCHANGED <<conns, ledgerUnique, guardrails, chat_store>>
Delete ==
    /\ \E id \in Ids, tenant_id \in Tenants : delete_template(id, tenant_id)
    /\ UNCHANGED <<conns, ledgerUnique, guardrails, chat_store>>

\* Spec: the calls that create, read, write and delete templates
Next ==
    \/ Create
    \/ Get
    \/ GetByName
    \/ Update
    \/ Rollback
    \/ Delete

Spec == Init /\ [][Next]_vars

\* SpecStore: every call of the store that writes, on fewer arguments
StoreTenants == {TenantA}

StoreCreate ==
    /\ \E content \in GoodContents, tenant_id \in StoreTenants :
           create_template(CommonName, content, tenant_id)
    /\ UNCHANGED <<conns, ledgerUnique, guardrails, chat_store>>
StoreUpdate ==
    /\ \E id \in Ids, content \in GoodContents, tenant_id \in StoreTenants :
           update_template(id, content, tenant_id)
    /\ UNCHANGED <<conns, ledgerUnique, guardrails, chat_store>>
StoreRollback ==
    /\ \E id \in Ids, version \in 1..MaxRows, tenant_id \in StoreTenants :
           rollback_to_version(id, version, tenant_id)
    /\ UNCHANGED <<conns, ledgerUnique, guardrails, chat_store>>
StoreDeactivate ==
    /\ \E id \in Ids, tenant_id \in StoreTenants : deactivate_template(id, tenant_id)
    /\ UNCHANGED <<conns, ledgerUnique, guardrails, chat_store>>
StoreActivate ==
    /\ \E id \in Ids, tenant_id \in StoreTenants : activate_template(id, tenant_id)
    /\ UNCHANGED <<conns, ledgerUnique, guardrails, chat_store>>
StoreDelete ==
    /\ \E id \in Ids, tenant_id \in StoreTenants : delete_template(id, tenant_id)
    /\ UNCHANGED <<conns, ledgerUnique, guardrails, chat_store>>
StoreList ==
    /\ \E include_inactive \in BOOLEAN, tenant_id \in StoreTenants \cup {NULL} :
           list_templates(include_inactive, tenant_id)
    /\ UNCHANGED <<conns, ledgerUnique, guardrails, chat_store>>
StoreShare ==
    /\ \E id \in Ids, flag \in BOOLEAN, tenant_id \in StoreTenants :
           set_template_shareable(id, flag, tenant_id)
    /\ UNCHANGED <<conns, ledgerUnique, guardrails, chat_store>>
StoreClone ==
    /\ \E id \in Ids, tenant_id \in StoreTenants, new_name \in {None, CommonName} :
           clone_template(id, tenant_id, new_name)
    /\ UNCHANGED <<conns, ledgerUnique, guardrails, chat_store>>

NextStore ==
    \/ StoreCreate
    \/ CreateDefault
    \/ StoreUpdate
    \/ StoreRollback
    \/ StoreDeactivate
    \/ StoreActivate
    \/ StoreDelete
    \/ StoreList
    \/ StoreShare
    \/ StoreClone

SpecStore == Init /\ [][NextStore]_vars

\* ------------------------------------------------------------------------
\* Properties of the store under Spec
\* ------------------------------------------------------------------------

\* the versions the ledger holds for a template
VersionsOf(h, id) == {r.version : r \in RowsOf(h, id)}

\* the number of ledger rows of a template
RowCount(h, id) == BagCardinality([r \in RowsOf(h, id) |-> h[r]])

\* a step is a successful update_template or rollback_to_version call
WriteStep == last'.op \in {"update", "rollback"} /\ last'.result = OK

\* C1: version-ledger invariant. Every existing template's current_version
\* is the largest version of its ledger rows and the ledger holds each of
\* the versions 1..current_version exactly once; every successful
\* update/rollback call adds one to current_version and one row to the
\* ledger, so N of them after the create leave versions 1..N+1.
LedgerInvariant ==
    \A id \in DOMAIN templates :
        /\ VersionsOf(history, id) = 1..templates[id].current_version
        /\ RowCount(history, id) = templates[id].current_version
        /\ \A r \in RowsOf(history, id) : r.version <= templates[id].current_version

C1_VersionLedger ==
    /\ []LedgerInvariant
    /\ [][WriteStep =>
            /\ last'.id \in DOMAIN templates
            /\ templates'[last'.id].current_version
                   = templates[last'.id].current_version + 1
            /\ RowCount(history', last'.id) = RowCount(history, last'.id) + 1
            /\ last'.ret = templates'[last'.id].current_version]_vars

\* C1 witness: a create, a failed call and two successful writes have left
\* a template at version 3
C1_Witness ==
    /\ last.op = "rollback" /\ last.result = OK
    /\ templates[last.id].current_version = 3
    /\ VersionsOf(history, last.id) = {1, 2, 3}

\* C4: a successful rollback_to_version(id, v) returns current_version + 1,
\* makes it the current version, gives the template and the new ledger row
\* the content of ledger version v and leaves every earlier row in place.
C4_Rollback ==
    [][(last'.op = "rollback" /\ last'.result = OK) =>
         LET id == last'.id
             v == last'.arg
         IN /\ id \in DOMAIN templates
            /\ last'.ret = templates[id].current_version + 1
            /\ templates'[id].current_version = last'.ret
            /\ \E old \in RowsOf(history, id) :
                  /\ old.version = v
                  /\ templates'[id].content = old.content
                  /\ \E new \in RowsOf(history', id) :
                        new.version = last'.ret /\ new.content = old.content
            /\ \A r \in BagToSet(history) :
                  CopiesIn(r, history') >= CopiesIn(r, history)]_vars

\* C4 witness: version 1 was restored over a different version 2
C4_Witness ==
    /\ last.op = "rollback" /\ last.result = OK /\ last.arg = 1 /\ last.ret = 3
    /\ \E r1, r2 \in RowsOf(history, last.id) :
          /\ r1.version = 1 /\ r2.version = 2 /\ r1.content # r2.content
          /\ templates[last.id].content = r1.content

\* C6: get_template and get_template_by_name return a row only of the
\* caller's tenant (the system scope reading only system rows); an id or
\* name held only by other tenants gives TemplateNotFoundError and nothing.
C6_TenantScopedReads ==
    /\ (last.op \in {"get", "get_by_name"} /\ last.result = OK) =>
          /\ last.ret.tenant_id = last.tenant
          /\ last.id \in DOMAIN templates /\ last.ret = templates[last.id]
    /\ (last.op = "get" /\ last.id \in DOMAIN templates
            /\ templates[last.id].tenant_id # last.tenant) =>
          (last.result = TemplateNotFoundError /\ last.ret = None)
    /\ (last.op = "get_by_name"
            /\ ~ \E id \in DOMAIN templates :
                    templates[id].name = last.arg /\ templates[id].tenant_id = last.tenant) =>
          (last.result = TemplateNotFoundError /\ last.ret = None)

\* C6 witness: a read by id of a template that another tenant owns
C6_Witness ==
    /\ last.op = "get" /\ last.result = TemplateNotFoundError
    /\ last.id \in DOMAIN templates
    /\ last.tenant # NULL /\ templates[last.id].tenant_id \notin {NULL, last.tenant}

NameView(t, name, tenant_id) == {t[id] : id \in MatchesName(t, name, tenant_id)}

\* C8: a name taken by one tenant does not stop another tenant creating it;
\* get_template_by_name gives each tenant the text that tenant wrote, and a
\* call by one tenant never changes what another tenant reads under a name.
C8_SameNameIsolated ==
    /\ [](last.op = "get_by_name" /\ last.result = OK =>
            \E r \in RowsOf(history, last.id) :
                /\ r.tenant_id = last.tenant
                /\ r.version = last.ret.current_version
                /\ r.content = last.ret.content)
    /\ [][/\ last'.op \in {"create", "update", "rollback", "delete"} =>
                \A tenant_id \in Tenants \ {last'.tenant} : \A name \in Names :
                    NameView(templates', name, tenant_id) = NameView(templates, name, tenant_id)
          /\ (last'.op = "create" /\ last'.result = PromptErrorExists) =>
                \E id \in DOMAIN templates :
                    templates[id].tenant_id = last'.tenant /\ templates[id].name = last'.arg]_vars

\* C8 witness: tenant A reads its own text under a name that tenant B also
\* holds with another text
C8_Witness ==
    /\ last.op = "get_by_name" /\ last.result = OK /\ last.tenant = TenantA
    /\ \E b \in DOMAIN templates :
          /\ templates[b].tenant_id = TenantB
          /\ templates[b].name = last.arg
          /\ templates[b].content # last.ret.content
    /\ last.ret.current_version = 2

C10_ValidateBeforeWrite ==
    /\ [](/\ \A id \in DOMAIN templates : _validate_jinja2(templates[id].content)
          /\ \A r \in BagToSet(history) : _validate_jinja2(r.content))
    /\ [][/\ last'.op = "create" =>
                \A name \in Names :
                    create_template(name, ContentBad, last'.tenant) =>
                       (last'.result = TemplateSyntaxError /\ UNCHANGED <<templates, history, nextId>>)
          /\ last'.op = "update" =>
                \A id \in Ids :
                    update_template(id, ContentBad, last'.tenant) =>
                       (last'.result = TemplateSyntaxError /\ UNCHANGED <<templates, history, nextId>>)]_vars

\* C10 witness: the owner's update with unparsable text was refused
C10_Witness ==
    /\ last.op = "update" /\ last.result = TemplateSyntaxError
    /\ Matches(templates, last.id, last.tenant)
    /\ templates[last.id].current_version = 2

\* ------------------------------------------------------------------------
\* SpecConc: update_template and rollback_to_version statement by statement
\* on several connections.  A connection sees what is committed; the UPDATE
\* takes the row lock of the template and waits while another connection
\* holds it; conn.commit() makes both writes visible at once.
\* ------------------------------------------------------------------------
ConcTenants == {TenantA}

InitConc ==
    /\ templates = << >>
    /\ history = EmptyBag
    /\ nextId = 1
    /\ last = Outcome("init", NULL, NoId, None, OK, None)
    /\ conns = [w \in Writers |-> Idle]
    /\ ledgerUnique \in BOOLEAN
    /\ NoGuardrails
    /\ NoChat

\* connections with a call under way
Active == {w \in Writers : conns[w].pc # "idle"}

\* the connection holding the row lock of a template, taken by its UPDATE
LockHolders(id) == {w \in Writers : conns[w].pc \in {"updated", "inserted"} /\ conns[w].id = id}

\* cursor.execute(SELECT current_version ...) of update_template, after
\* _validate_jinja2: the version this writer goes on to use
ConcSelect(w, op, arg, template_id, content, tenant_id) ==
    IF ~_validate_jinja2(content)
    THEN /\ last' = Outcome(op, tenant_id, template_id, arg, TemplateSyntaxError, None)
         /\ conns' = [conns EXCEPT ![w] = Idle]
    ELSE LET current == SelectCurrentVersion(templates, template_id, tenant_id)
         IN IF current = 0
            THEN /\ last' = Outcome(op, tenant_id, template_id, arg, TemplateNotFoundError, None)
                 /\ conns' = [conns EXCEPT ![w] = Idle]
            ELSE /\ conns' = [conns EXCEPT ![w] =
                        [pc |-> "selected", op |-> op, tenant |-> tenant_id,
                         id |-> template_id, arg |-> arg, content |-> content,
                         read |-> current]]
                 /\ UNCHANGED last

\* update_template(template_id, content, tenant_id) up to its SELECT
StartUpdate(w) ==
    /\ conns[w].pc = "idle"
    /\ BagCardinality(history) + Cardinality(Active) < MaxRows
    /\ \E id \in Ids, content \in Contents, tenant_id \in ConcTenants :
           ConcSelect(w, "update", None, id, content, tenant_id)
    /\ UNCHANGED <<store, ledgerUnique, guardrails, chat_store>>

\* rollback_to_version(template_id, version, tenant_id) up to the return of
\* get_version
StartRollback(w) ==
    /\ conns[w].pc = "idle"
    /\ BagCardinality(history) + Cardinality(Active) < MaxRows
    /\ \E id \in Ids, version \in 1..MaxRows, tenant_id \in ConcTenants :
         LET found == get_version(templates, history, id, version, tenant_id)
         IN IF found = {}
            THEN /\ last' = Outcome("rollback", tenant_id, id, version,
                                    TemplateNotFoundError, None)
                 /\ UNCHANGED conns
            ELSE \E old_version \in found :
                   /\ conns' = [conns EXCEPT ![w] =
                          [pc |-> "fetched", op |-> "rollback", tenant |-> tenant_id,
                           id |-> id, arg |-> version, content |-> old_version.content,
                           read |-> 0]]
                   /\ UNCHANGED last
    /\ UNCHANGED <<store, ledgerUnique, guardrails, chat_store>>

\* the update_template call inside rollback_to_version, up to its SELECT
RollbackSelect(w) ==
    /\ conns[w].pc = "fetched"
    /\ ConcSelect(w, "rollback", conns[w].arg, conns[w].id, conns[w].content, conns[w].tenant)
    /\ UNCHANGED <<store, ledgerUnique, guardrails, chat_store>>

\* cursor.execute(UPDATE system_prompt ...): waits for the row lock
ExecUpdate(w) ==
    /\ conns[w].pc = "selected"
    /\ LockHolders(conns[w].id) = {}
    /\ conns' = [conns EXCEPT ![w].pc = "updated"]
    /\ UNCHANGED <<store, last, ledgerUnique, guardrails, chat_store>>

\* conn.rollback() in `except Exception`: what the transaction wrote is gone
AbortKeepsUpdate(t, c) == UpdateRow(t, c.id, c.tenant, c.content, NewVersion(c.read))
Abort(t, c) == t

\* UNIQUE (template_id, version) of prompt_version_history, where the schema
\* declares it
LedgerUniqueViolation(h, template_id, version) ==
    ledgerUnique /\ version \in VersionsOf(h, template_id)

\* cursor.execute(INSERT INTO prompt_version_history ...)
ExecInsert(w) ==
    /\ conns[w].pc = "updated"
    /\ IF LedgerUniqueViolation(history, conns[w].id, NewVersion(conns[w].read))
       THEN /\ templates' = Abort(templates, conns[w])
            /\ last' = Outcome(conns[w].op, conns[w].tenant, conns[w].id, conns[w].arg,
                               ClassifyErrorUpdate(UniqueViolationError), None)
            /\ conns' = [conns EXCEPT ![w] = Idle]
       ELSE /\ conns' = [conns EXCEPT ![w].pc = "inserted"]
            /\ UNCHANGED <<templates, last>>
    /\ UNCHANGED <<history, nextId, ledgerUnique, guardrails, chat_store>>

\* conn.commit(); return new_version
Commit(w) ==
    /\ conns[w].pc = "inserted"
    /\ LET c == conns[w]
           new_version == NewVersion(c.read)
       IN /\ templates' = UpdateRow(templates, c.id, c.tenant, c.content, new_version)
          /\ history' = InsertHistory(history,
                            TemplateVersion(c.tenant, c.id, new_version, c.content))
          /\ last' = Outcome(c.op, c.tenant, c.id, c.arg, OK, new_version)
    /\ conns' = [conns EXCEPT ![w] = Idle]
    /\ UNCHANGED <<nextId, ledgerUnique, guardrails, chat_store>>

\* a statement or the commit raises (connection lost): except Exception
Fail(w) ==
    /\ conns[w].pc \in {"selected", "updated", "inserted"}
    /\ templates' = IF conns[w].pc = "selected" THEN templates
                    ELSE Abort(templates, conns[w])
    /\ last' = Outcome(conns[w].op, conns[w].tenant, conns[w].id, conns[w].arg,
                       ClassifyErrorUpdate(OperationalError), None)
    /\ conns' = [conns EXCEPT ![w] = Idle]
    /\ UNCHANGED <<history, nextId, ledgerUnique, guardrails, chat_store>>

ConcCreate ==
    /\ \E content \in GoodContents, tenant_id \in ConcTenants :
           create_template(CommonName, content, tenant_id)
    /\ UNCHANGED <<conns, ledgerUnique, guardrails, chat_store>>

NextConc ==
    \/ ConcCreate
    \/ \E w \in Writers : StartUpdate(w)
    \/ \E w \in Writers : StartRollback(w)
    \/ \E w \in Writers : RollbackSelect(w)
    \/ \E w \in Writers : ExecUpdate(w)
    \/ \E w \in Writers : ExecInsert(w)
    \/ \E w \in Writers : Commit(w)
    \/ \E w \in Writers : Fail(w)

SpecConc == InitConc /\ [][NextConc]_vars

\* ------------------------------------------------------------------------
\* Properties of concurrent writers under SpecConc
\* ------------------------------------------------------------------------

\* C2: concurrent update_template / rollback_to_version calls on one
\* template leave no gap, no version held by two rows and no lost row: the
\* ledger of a template created at version 1 and written by k successful
\* writers (1 + k rows) holds exactly the versions 1..1+k, the last of them
\* being current_version.
C2_ConcurrentWriters ==
    \A id \in DOMAIN templates :
        /\ VersionsOf(history, id) = 1..RowCount(history, id)
        /\ templates[id].current_version = RowCount(history, id)

\* the connections whose call ends in this step
Ended == {w \in Writers : conns[w].pc # "idle" /\ conns'[w].pc = "idle"}

\* C3: update_template is atomic. Its UPDATE and its INSERT become visible
\* in one step or not at all: a step that changes a template's content or
\* version adds the ledger row of that version and content, a step that
\* adds a ledger row to an existing template sets the template to that
\* version and content, and a call that ends with an error, at whatever
\* statement, leaves templates and ledger as committed.
C3_UpdateAtomic ==
    /\ [](\A id \in DOMAIN templates :
            \E r \in RowsOf(history, id) :
                r.version = templates[id].current_version
                /\ r.content = templates[id].content)
    /\ [][/\ \A id \in DOMAIN templates :
                /\ templates'[id] # templates[id] =>
                      \E r \in RowsOf(history', id) :
                          /\ CopiesIn(r, history') = CopiesIn(r, history) + 1
                          /\ r.version = templates'[id].current_version
                          /\ r.content = templates'[id].content
                /\ \A r \in RowsOf(history', id) :
                      CopiesIn(r, history') > CopiesIn(r, history) =>
                          /\ r.version = templates'[id].current_version
                          /\ r.content = templates'[id].content
          /\ (Ended # {} /\ last'.result # OK) =>
                (templates' = templates /\ history' = history)
          /\ (Ended = {} /\ last' = last) =>
                (templates' = templates /\ history' = history)]_vars

\* C3 witness: a call failed after its UPDATE had run, beside a committed
\* version 2
C3_Witness ==
    /\ last.op = "update" /\ last.result = PromptErrorFailed
    /\ Matches(templates, last.id, last.tenant)
    /\ templates[last.id].current_version = 2
    /\ RowCount(history, last.id) = 2

\* ------------------------------------------------------------------------
\* Properties of the whole store under SpecStore
\* ------------------------------------------------------------------------

\* C5: ledger rows are append-only. No call of the store (create, update,
\* rollback, activate, deactivate, delete, clone, list) removes a
\* prompt_version_history row or changes its content.
C5_AppendOnly ==
    [][\A r \in BagToSet(history) : CopiesIn(r, history') >= CopiesIn(r, history)]_vars

\* ------------------------------------------------------------------------
\* SpecClone: tenant A writes and shares templates, tenant B clones them,
\* and both work on the source and on the clone
\* ------------------------------------------------------------------------
CloneTenants == {TenantA, TenantB}

CloneCreate ==
    /\ \E content \in GoodContents : create_template(CommonName, content, TenantA)
    /\ UNCHANGED <<conns, ledgerUnique, guardrails, chat_store>>
CloneShare ==
    /\ \E id \in Ids, flag \in BOOLEAN : set_template_shareable(id, flag, TenantA)
    /\ UNCHANGED <<conns, ledgerUnique, guardrails, chat_store>>
CloneClone ==
    /\ \E id \in Ids : clone_template(id, TenantB, None)
    /\ UNCHANGED <<conns, ledgerUnique, guardrails, chat_store>>
CloneUpdate ==
    /\ \E id \in Ids, content \in GoodContents, tenant_id \in CloneTenants :
           update_template(id, content, tenant_id)
    /\ UNCHANGED <<conns, ledgerUnique, guardrails, chat_store>>
CloneRollback ==
    /\ \E id \in Ids, version \in 1..MaxRows, tenant_id \in CloneTenants :
           rollback_to_version(id, version, tenant_id)
    /\ UNCHANGED <<conns, ledgerUnique, guardrails, chat_store>>
CloneDeactivate ==
    /\ \E id \in Ids, tenant_id \in CloneTenants : deactivate_template(id, tenant_id)
    /\ UNCHANGED <<conns, ledgerUnique, guardrails, chat_store>>
CloneDelete ==
    /\ \E id \in Ids, tenant_id \in CloneTenants : delete_template(id, tenant_id)
    /\ UNCHANGED <<conns, ledgerUnique, guardrails, chat_store>>

NextClone ==
    \/ CloneCreate
    \/ CloneShare
    \/ CloneClone
    \/ CloneUpdate
    \/ CloneRollback
    \/ CloneDeactivate
    \/ CloneDelete

SpecClone == Init /\ [][NextClone]_vars

\* the ledger rows of one template with their multiplicities
LedgerOf(h, id) == [r \in RowsOf(h, id) |-> h[r]]

ClonePair(t, x, y) ==
    /\ x \in DOMAIN t /\ y \in DOMAIN t /\ x # y
    /\ (t[x].cloned_from_id = y \/ t[y].cloned_from_id = x)

\* C12: clone independence. An update_template, rollback_to_version,
\* deactivate or delete call on a clone leaves its source's content,
\* current_version, is_active and ledger as they were, and the same call
\* on the source leaves the clone's as they were; so does any sequence.
C12_CloneIndependent ==
    [][last'.op \in {"update", "rollback", "deactivate", "delete"} =>
         \A other \in DOMAIN templates :
            ClonePair(templates, last'.id, other) =>
               /\ other \in DOMAIN templates'
               /\ templates'[other].content = templates[other].content
               /\ templates'[other].current_version = templates[other].current_version
               /\ templates'[other].is_active = templates[other].is_active
               /\ LedgerOf(history', other) = LedgerOf(history, other)]_vars

\* C12 witness: the clone was rewritten and its source still holds the text
\* that was cloned
C12_Witness ==
    /\ last.op = "update" /\ last.result = OK
    /\ last.id \in DOMAIN templates
    /\ templates[last.id].cloned_from_id \in DOMAIN templates
    /\ templates[last.id].current_version = 2
    /\ templates[templates[last.id].cloned_from_id].current_version = 1
    /\ templates[templates[last.id].cloned_from_id].content # templates[last.id].content

\* ------------------------------------------------------------------------
\* SpecBoot: list_templates statement by statement on several connections,
\* the first calls of a tenant racing to clone the system 'default'
\* template.  Each statement reads what is committed; an INSERT of a
\* (tenant_id, name) that another open transaction has inserted waits for
\* that transaction to end.
\* ------------------------------------------------------------------------
BootTenants == {TenantA, NULL}

\* the store holds the system 'default' template, or nothing at all
InitBoot ==
    /\ \E content \in GoodContents :
          \/ /\ templates = InsertTemplate(<< >>, 1,
                                Template(DefaultName, content, 1, NULL, NoId, None))
             /\ history = InsertHistory(EmptyBag, TemplateVersion(NULL, 1, 1, content))
             /\ nextId = 2
          \/ /\ templates = << >>
             /\ history = EmptyBag
             /\ nextId = 1
    /\ last = Outcome("init", NULL, NoId, None, OK, None)
    /\ conns = [w \in Writers |-> Idle]
    /\ ledgerUnique = TRUE
    /\ NoGuardrails
    /\ NoChat

\* SELECT COUNT(*) FROM system_prompt WHERE {tenant_clause}
CountTemplates(t, tenant_id) ==
    Cardinality({id \in DOMAIN t : TenantClause(t[id].tenant_id, tenant_id)})

\* list_templates up to `if count == 0 and tenant_id is not None`
BootCount(w) ==
    /\ conns[w].pc = "idle"
    /\ \E include_inactive \in BOOLEAN, tenant_id \in BootTenants :
          conns' = [conns EXCEPT ![w] =
              [pc |-> IF CountTemplates(templates, tenant_id) = 0 /\ tenant_id # NULL
                      THEN "cloning" ELSE "reading",
               op |-> "list", tenant |-> tenant_id, id |-> NoId,
               arg |-> include_inactive, content |-> << >>,
               read |-> CountTemplates(templates, tenant_id)]]
    /\ UNCHANGED <<store, last, ledgerUnique, guardrails, chat_store>>

\* the connections whose open transaction has inserted (tenant_id, 'default')
PendingClones(tenant_id) ==
    {v \in Writers : conns[v].pc = "inserted" /\ conns[v].tenant = tenant_id}

\* _clone_default_template_for_tenant: SELECT the system default, INSERT
\* INTO system_prompt ... RETURNING id.  No handler catches what the INSERT
\* raises: the error leaves list_templates and put_conn ends the transaction
BootInsert(w) ==
    /\ conns[w].pc = "cloning"
    /\ IF DefaultSource(templates) = {}
       THEN \* return None; conn.commit()
            /\ conns' = [conns EXCEPT ![w].pc = "reading"]
            /\ UNCHANGED <<nextId, last>>
       ELSE /\ PendingClones(conns[w].tenant) = {}
            /\ nextId' = nextId + 1
            /\ IF UniqueViolation(templates, conns[w].tenant, DefaultName)
               THEN /\ last' = Outcome("list", conns[w].tenant, NoId, conns[w].arg,
                                       UniqueViolationError, None)
                    /\ conns' = [conns EXCEPT ![w] = Idle]
               ELSE /\ \E source_id \in DefaultSource(templates) :
                         conns' = [conns EXCEPT ![w].pc = "inserted",
                                                ![w].id = nextId,
                                                ![w].read = source_id,
                                                ![w].content = templates[source_id].content]
                    /\ UNCHANGED last
    /\ UNCHANGED <<templates, history, ledgerUnique, guardrails, chat_store>>

\* INSERT INTO prompt_version_history; conn.commit()
BootCommit(w) ==
    /\ conns[w].pc = "inserted"
    /\ LET c == conns[w]
       IN /\ templates' = InsertTemplate(templates, c.id,
                               Template(DefaultName, c.content, 1, c.tenant, c.read, None))
          /\ history' = InsertHistory(history, TemplateVersion(c.tenant, c.id, 1, c.content))
    /\ conns' = [conns EXCEPT ![w].pc = "reading"]
    /\ UNCHANGED <<nextId, last, ledgerUnique, guardrails, chat_store>>

\* SELECT ... WHERE {tenant_clause} [AND is_active = true]; return
BootRead(w) ==
    /\ conns[w].pc = "reading"
    /\ last' = Outcome("list", conns[w].tenant, NoId, conns[w].arg, OK,
                       Listed(templates, conns[w].arg, conns[w].tenant))
    /\ conns' = [conns EXCEPT ![w] = Idle]
    /\ UNCHANGED <<store, ledgerUnique, guardrails, chat_store>>

\* the tenant deactivates its templates in between
BootDeactivate ==
    /\ \E id \in DOMAIN templates, tenant_id \in BootTenants \ {NULL} :
          deactivate_template(id, tenant_id)
    /\ UNCHANGED <<conns, ledgerUnique, guardrails, chat_store>>

NextBoot ==
    \/ \E w \in Writers : BootCount(w)
    \/ \E w \in Writers : BootInsert(w)
    \/ \E w \in Writers : BootCommit(w)
    \/ \E w \in Writers : BootRead(w)
    \/ BootDeactivate

SpecBoot == InitBoot /\ [][NextBoot]_vars

\* the auto-cloned 'default' templates of a tenant
DefaultClones(t, tenant_id) ==
    {id \in DOMAIN t : t[id].tenant_id = tenant_id /\ t[id].name = DefaultName}

\* C13: however the first list_templates calls of a tenant interleave, the
\* tenant never holds two 'default' templates; once one of these calls has
\* ended (the system 'default' template being there) the tenant holds
\* exactly one, with exactly one ledger row, of version 1.
C13_BootstrapOnce ==
    \A tenant_id \in BootTenants \ {NULL} :
        /\ Cardinality(DefaultClones(templates, tenant_id)) <= 1
        /\ \A id \in DefaultClones(templates, tenant_id) :
              /\ RowCount(history, id) = 1
              /\ VersionsOf(history, id) = {1}
              /\ templates[id].current_version = 1
        /\ (last.op = "list" /\ last.tenant = tenant_id /\ DefaultSource(templates) # {}) =>
              Cardinality(DefaultClones(templates, tenant_id)) = 1

\* C13 witness: two calls counted zero templates and both have ended
C13_Witness ==
    /\ last.op = "list" /\ last.tenant = TenantA
    /\ nextId = 4
    /\ \A w \in Writers : conns[w].pc = "idle"
    /\ Cardinality(DefaultClones(templates, TenantA)) = 1

\* C14: the list_templates call whose insert of the default clone meets
\* the (tenant, name) uniqueness conflict goes on to read: every first
\* list call ends successfully and returns the list holding the one clone.
C14_ConflictMeansBootstrapped ==
    (last.op = "list" /\ last.tenant # NULL /\ DefaultSource(templates) # {}) =>
        /\ last.result = OK
        /\ \A id \in DefaultClones(templates, last.tenant) :
              (last.arg \/ templates[id].is_active) => id \in last.ret

\* ------------------------------------------------------------------------
\* SpecRender: rendering.  A text is a sequence of pieces; "{{" name "}}" is
\* a reference to a variable and a value is itself a text.
\* ------------------------------------------------------------------------
TemplateRenderError == "TemplateRenderError"

\* "Hello {{name}}!" and "{{greeting}} {{name}}"
ContentHello == <<"Hello ", "{{", "name", "}}", "!">>
ContentTwo == <<"{{", "greeting", "}}", " ", "{{", "name", "}}">>
RenderContents == {ContentHello, ContentTwo, ContentB, ContentBad}

\* the variable maps a caller passes: any of the names, each with a value
VarNames == {"name", "greeting"}
VarValues == {<<"World">>, << >>}
VariableMaps == UNION {[S -> VarValues] : S \in SUBSET VarNames}

\* undefined=StrictUndefined: the value of a name, or that it has none (the
\* default Undefined renders a missing name as the empty text)
LenientUndefined(variables, name) ==
    IF name \in DOMAIN variables
    THEN [defined |-> TRUE, value |-> variables[name]]
    ELSE [defined |-> TRUE, value |-> << >>]
StrictUndefined(variables, name) ==
    IF name \in DOMAIN variables
    THEN [defined |-> TRUE, value |-> variables[name]]
    ELSE [defined |-> FALSE, value |-> << >>]

\* f"Failed to render template: {e}", e being jinja2's "'x' is undefined"
RenderErrorMessage(name) == <<"Failed to render template: ", "'", name, "' is undefined">>

\* template.render(**variables), piece by piece from piece i on
RECURSIVE RenderFrom(_, _, _, _)
RenderFrom(content, i, variables, out) ==
    IF i > Len(content) THEN [result |-> OK, ret |-> out]
    ELSE IF content[i] = "{{"
         THEN LET v == StrictUndefined(variables, content[i + 1])
              IN IF v.defined
                 THEN RenderFrom(content, i + 3, variables, out \o v.value)
                 ELSE [result |-> TemplateRenderError,
                       ret |-> RenderErrorMessage(content[i + 1])]
         ELSE RenderFrom(content, i + 1, variables, Append(out, content[i]))

\* _render_content(content, variables): the text, or the error raised
_render_content(content, variables) ==
    IF ~_validate_jinja2(content)
    THEN [result |-> TemplateSyntaxError, ret |-> None]
    ELSE RenderFrom(content, 1, variables, << >>)

\* render_template(template_id, variables, tenant_id)
render_template(template_id, variables, tenant_id) ==
    /\ IF Matches(templates, template_id, tenant_id)
       THEN LET content == templates[template_id].content
                r == _render_content(content, variables)
            IN last' = Outcome("render", tenant_id, template_id,
                               [content |-> content, variables |-> variables],
                               r.result, r.ret)
       ELSE last' = Outcome("render", tenant_id, template_id,
                            [content |-> << >>, variables |-> variables],
                            TemplateNotFoundError, None)
    /\ UNCHANGED <<templates, history, nextId>>

RenderCreate ==
    /\ \E content \in RenderContents : create_template(CommonName, content, TenantA)
    /\ UNCHANGED <<conns, ledgerUnique, guardrails, chat_store>>
RenderUpdate ==
    /\ \E id \in Ids, content \in RenderContents : update_template(id, content, TenantA)
    /\ UNCHANGED <<conns, ledgerUnique, guardrails, chat_store>>
RenderTemplate ==
    /\ \E id \in Ids, variables \in VariableMaps, tenant_id \in {TenantA, TenantB} :
          render_template(id, variables, tenant_id)
    /\ UNCHANGED <<conns, ledgerUnique, guardrails, chat_store>>
RenderContent ==
    /\ \E content \in RenderContents, variables \in VariableMaps :
          LET r == _render_content(content, variables)
          IN last' = Outcome("render", NULL, NoId,
                             [content |-> content, variables |-> variables],
                             r.result, r.ret)
    /\ UNCHANGED <<store, conns, ledgerUnique, guardrails, chat_store>>

NextRender ==
    \/ RenderCreate
    \/ RenderUpdate
    \/ RenderTemplate
    \/ RenderContent

SpecRender == Init /\ [][NextRender]_vars

\* the variables a text refers to
References(content) ==
    {content[i + 1] : i \in {j \in 1..(Len(content) - 1) : content[j] = "{{"}}

MaxConfigId == 2
MaxRules == 3

GuardrailError == "GuardrailError"
GuardrailNotFoundError == "GuardrailNotFoundError"
InvalidRulesError == "InvalidRulesError"
TypeError == "TypeError: got an unexpected keyword argument 'tenant_id'"

PyList(items) == [py |-> "list", v |-> items]
PyDict(d) == [py |-> "dict", v |-> d]
PyStr(text) == [py |-> "str", v |-> text]
PyNone == [py |-> "NoneType", v |-> None]

SystemInstruction == "system_instruction"

\* rules as operators write them
RuleX == [type |-> "x"]
RuleA == [type |-> SystemInstruction, priority |-> 1, content |-> "A"]
RuleB == [type |-> SystemInstruction, priority |-> 10, content |-> "B"]
RuleC == [type |-> SystemInstruction, content |-> "C"]
RuleD == [type |-> SystemInstruction, priority |-> 0, content |-> "D"]
RuleNoContent == [type |-> SystemInstruction, priority |-> 10]
RuleInstructionA == [type |-> "instruction", priority |-> 1, content |-> "A"]
RuleInstructionB == [type |-> "instruction", priority |-> 10, content |-> "B"]
RuleAlphabet == {RuleX, RuleA, RuleB, RuleC, RuleD, RuleNoContent,
                 RuleInstructionA, RuleInstructionB}

\* the rule lists a stored config can hold
RuleLists == UNION {[1..n -> RuleAlphabet] : n \in 0..MaxRules}

GuardNames == {CommonName, <<"other">>}
BasePrompt == <<"You are a helpful assistant.">>
BasePrompts == {BasePrompt, << >>}

\* a guardrail_configs row
GuardrailConfig(tenant_id, name, rules, description, is_active) ==
    [tenant_id |-> tenant_id, name |-> name, rules |-> rules,
     description |-> description, is_active |-> is_active]

\* the validation of create_config and update_config: a list of
\* dictionaries each holding 'type'
ValidRulesAlways(rules) == TRUE
ValidRules(rules) ==
    /\ rules.py = "list"
    /\ \A i \in 1..Len(rules.v) :
          /\ rules.v[i].py = "dict"
          /\ "type" \in DOMAIN rules.v[i].v

\* json.dumps(rules) read back from the JSONB column
StoredRules(rules) ==
    IF rules.py = "list" THEN [i \in 1..Len(rules.v) |-> rules.v[i].v] ELSE rules.v

\* the unique index on (COALESCE(tenant_id, 0), name)
ConfigUniqueViolation(g, tenant_id, name) ==
    \E id \in DOMAIN g : g[id].tenant_id = tenant_id /\ g[id].name = name

\* WHERE name = %s AND is_active = true
ActiveByName(g, name) == {id \in DOMAIN g : g[id].name = name /\ g[id].is_active}

\* r.get("priority", 0)
Priority(rule) == IF "priority" \in DOMAIN rule THEN rule.priority ELSE 0

\* one step of sorted(..., reverse=True): the rule goes behind the rules
\* already placed that do not rank lower, so equal keys keep their order
InsertByPriorityBeforeTies(placed, rule) ==
    LET k == Cardinality({i \in 1..Len(placed) : Priority(placed[i]) > Priority(rule)})
    IN SubSeq(placed, 1, k) \o <<rule>> \o SubSeq(placed, k + 1, Len(placed))
InsertByPriority(placed, rule) ==
    LET k == Cardinality({i \in 1..Len(placed) : Priority(placed[i]) >= Priority(rule)})
    IN SubSeq(placed, 1, k) \o <<rule>> \o SubSeq(placed, k + 1, Len(placed))

\* sorted(config.rules, key=lambda r: r.get("priority", 0), reverse=True)
RECURSIVE SortedFrom(_, _, _)
SortedFrom(rules, i, placed) ==
    IF i > Len(rules) THEN placed
    ELSE SortedFrom(rules, i + 1, InsertByPriority(placed, rules[i]))
sorted_rules(rules) == SortedFrom(rules, 1, << >>)

\* rule["type"] == "system_instruction" and "content" in rule
IsInstruction(rule) == rule.type = SystemInstruction /\ "content" \in DOMAIN rule

\* instructions: the contents of the instruction rules, in sorted order
Instructions(rules) ==
    LET kept == SelectSeq(sorted_rules(rules), IsInstruction)
    IN [i \in 1..Len(kept) |-> kept[i].content]

\* "\n\n".join(instructions)
Join(instructions) ==
    [i \in 1..(2 * Len(instructions) - 1) |->
        IF i % 2 = 1 THEN instructions[(i + 1) \div 2] ELSE "\n\n"]

\* `if not instructions: return base_prompt`, else the section, a blank
\* line and the prompt
PrependAlways(instructions, base_prompt) ==
    (IF instructions = << >> THEN << >> ELSE Join(instructions)) \o <<"\n\n">> \o base_prompt
Prepend(instructions, base_prompt) ==
    IF instructions = << >>
    THEN base_prompt
    ELSE Join(instructions) \o <<"\n\n">> \o base_prompt

\* apply_guardrails(base_prompt, config_name)
apply_guardrails(base_prompt, config_name) ==
    /\ IF ActiveByName(guardrail_configs, config_name) = {}
       THEN last' = Outcome("apply", NULL, NoId,
                            [name |-> config_name, base_prompt |-> base_prompt],
                            GuardrailNotFoundError, None)
       ELSE \E id \in ActiveByName(guardrail_configs, config_name) :
               last' = Outcome("apply", NULL, id,
                               [name |-> config_name, base_prompt |-> base_prompt], OK,
                               Prepend(Instructions(guardrail_configs[id].rules), base_prompt))
    /\ UNCHANGED guardrails

\* delete_config(config_id, soft), called for a tenant it is not told of
delete_config(config_id, soft, caller) ==
    IF config_id \notin DOMAIN guardrail_configs
    THEN /\ last' = Outcome("delete_config", caller, config_id, soft,
                            GuardrailNotFoundError, None)
         /\ UNCHANGED guardrails
    ELSE /\ guardrail_configs' =
               IF soft
               THEN [guardrail_configs EXCEPT ![config_id].is_active = FALSE]
               ELSE [id \in DOMAIN guardrail_configs \ {config_id} |-> guardrail_configs[id]]
         /\ last' = Outcome("delete_config", caller, config_id, soft, OK, None)
         /\ UNCHANGED nextConfigId

\* ------------------------------------------------------------------------
\* SpecApply: apply_guardrails on a stored config holding any rule list
\* ------------------------------------------------------------------------
InitApply ==
    /\ templates = << >>
    /\ history = EmptyBag
    /\ nextId = 1
    /\ last = Outcome("init", NULL, NoId, None, OK, None)
    /\ conns = [w \in Writers |-> Idle]
    /\ ledgerUnique = TRUE
    /\ NoChat
    /\ \E rules \in RuleLists :
          guardrail_configs = <<GuardrailConfig(NULL, CommonName, rules, None, TRUE)>>
    /\ nextConfigId = 2

Apply ==
    /\ \E base_prompt \in BasePrompts, config_name \in GuardNames :
          apply_guardrails(base_prompt, config_name)
    /\ UNCHANGED <<store, conns, ledgerUnique, chat_store>>
ApplyDeactivate ==
    /\ \E config_id \in DOMAIN guardrail_configs : delete_config(config_id, TRUE, NULL)
    /\ UNCHANGED <<store, conns, ledgerUnique, chat_store>>

NextApply ==
    \/ Apply
    \/ ApplyDeactivate

SpecApply == InitApply /\ [][NextApply]_vars

\* the rules of the given type that hold a content
Surviving(rules, type) ==
    {i \in 1..Len(rules) : rules[i].type = type /\ "content" \in DOMAIN rules[i]}

\* how many surviving rules come before rule i: those of higher priority
\* and those of the same priority written earlier
Rank(rules, type, i) ==
    Cardinality({k \in Surviving(rules, type) :
                    \/ Priority(rules[k]) > Priority(rules[i])
                    \/ (Priority(rules[k]) = Priority(rules[i]) /\ k < i)})

\* the contents of the rules of the given type, by priority descending,
\* equal priorities in authoring order
ByPriority(rules, type) ==
    [n \in 1..Cardinality(Surviving(rules, type)) |->
        rules[CHOOSE i \in Surviving(rules, type) : Rank(rules, type, i) = n - 1].content]

\* what the claim says of apply for the tag that marks an instruction rule
ApplyOrdered(type, example) ==
    (last.op = "apply" /\ last.result = OK) =>
        LET rules == guardrail_configs[last.id].rules
        IN /\ ByPriority(rules, type) # << >> =>
                last.ret = Join(ByPriority(rules, type)) \o <<"\n\n">> \o last.arg.base_prompt
           /\ rules = example =>
                last.ret = <<"B", "\n\n", "A", "\n\n">> \o last.arg.base_prompt

\* C16: apply_guardrails returns the contents of the config's instruction
\* rules (type "system_instruction") by priority descending, a missing
\* priority counting as 0 and equal priorities keeping authoring order,
\* joined by a blank line and followed by a blank line and the base
\* prompt; rules of another type add nothing.  For the rules {type x},
\* {system_instruction, priority 1, "A"}, {system_instruction, priority 10,
\* "B"} the result is "B\n\nA\n\n" + prompt.
C16_ApplyOrder == ApplyOrdered(SystemInstruction, <<RuleX, RuleA, RuleB>>)

\* C16 as stated, the instruction rules being those of type "instruction":
\* for {type x}, {instruction, priority 1, "A"}, {instruction, priority 10,
\* "B"} the result is "B\n\nA\n\n" + prompt.
C16_ApplyOrderAsStated == ApplyOrdered("instruction", <<RuleX, RuleInstructionA, RuleInstructionB>>)

\* C16 witness: two rules of priority 0, one of them by default, came out
\* in authoring order behind a rule of higher priority
C16_Witness ==
    /\ last.op = "apply" /\ last.result = OK
    /\ guardrail_configs[last.id].rules = <<RuleC, RuleD, RuleA>>
    /\ last.ret = <<"A", "\n\n", "C", "\n\n", "D", "\n\n">> \o BasePrompt

\* C17: composition is the identity on empty guardrail sets. When the
\* config has no rules, or none of them is an instruction rule holding a
\* content, apply_guardrails returns the base prompt exactly.
C17_ApplyIdentity ==
    (last.op = "apply" /\ last.result = OK
        /\ \A i \in 1..Len(guardrail_configs[last.id].rules) :
              ~ (/\ guardrail_configs[last.id].rules[i].type = SystemInstruction
                 /\ "content" \in DOMAIN guardrail_configs[last.id].rules[i])) =>
        last.ret = last.arg.base_prompt

\* C17 witness: rules were there, none of them survived
C17_Witness ==
    /\ last.op = "apply" /\ last.result = OK
    /\ guardrail_configs[last.id].rules = <<RuleX, RuleNoContent>>
    /\ last.ret = BasePrompt

\* ------------------------------------------------------------------------
\* SpecGuard: the guardrail store called on behalf of tenants.  The
\* functions of guardrails.py take no tenant: `caller` is the tenant the
\* call is made for, which the call outcome records and the code never sees.
\* ------------------------------------------------------------------------
GuardTenants == {TenantA, TenantB}

\* what callers pass as rules, by name: two lists that pass validation, a
\* value that is not a list, a list holding a string, a list holding a
\* dictionary without 'type'; None where update_config gets no rules
RulesValue(key) ==
    CASE key = "empty" -> PyList(<< >>)
      [] key = "one_rule" -> PyList(<<PyDict(RuleB)>>)
      [] key = "not_a_list" -> PyStr("rules")
      [] key = "not_a_dict" -> PyList(<<PyStr("rule")>>)
      [] key = "no_type" -> PyList(<<PyDict([content |-> "A"])>>)
      [] OTHER -> PyNone
RulesInputs == {"empty", "one_rule", "not_a_list", "not_a_dict", "no_type"}

\* the arguments of update_config: rules, description, is_active, each
\* None where the caller leaves it out
UpdateInputs ==
    {[rules |-> r, description |-> None, is_active |-> None] : r \in RulesInputs}
    \cup {[rules |-> "no_type", description |-> "d", is_active |-> "false"],
          [rules |-> None, description |-> "d", is_active |-> None],
          [rules |-> None, description |-> None, is_active |-> "false"],
          [rules |-> None, description |-> None, is_active |-> "true"],
          [rules |-> None, description |-> None, is_active |-> None]}

\* rows written with a tenant_id, as the tenant-scoped schema holds them:
\* none, tenant A's 'common', or tenant A's and the system's 'common'
InitGuard ==
    /\ templates = << >>
    /\ history = EmptyBag
    /\ nextId = 1
    /\ last = Outcome("init", NULL, NoId, None, OK, None)
    /\ conns = [w \in Writers |-> Idle]
    /\ ledgerUnique = TRUE
    /\ NoChat
    /\ \/ NoGuardrails
       \/ /\ guardrail_configs = <<GuardrailConfig(TenantA, CommonName, <<RuleA>>, None, TRUE)>>
          /\ nextConfigId = 2
       \/ /\ guardrail_configs = <<GuardrailConfig(TenantA, CommonName, <<RuleA>>, None, TRUE),
                                   GuardrailConfig(NULL, CommonName, << >>, None, TRUE)>>
          /\ nextConfigId = 3

\* create_config(name, rules, description, created_by): the INSERT names no
\* tenant_id, the row is system-scoped
create_config(name, rules, caller) ==
    IF ~ValidRules(RulesValue(rules))
    THEN /\ last' = Outcome("create_config", caller, NoId, [name |-> name, rules |-> rules],
                            InvalidRulesError, None)
         /\ UNCHANGED guardrails
    ELSE /\ nextConfigId <= MaxConfigId
         /\ nextConfigId' = nextConfigId + 1
         /\ IF ConfigUniqueViolation(guardrail_configs, NULL, name)
            THEN \* conn.rollback()
                 /\ last' = Outcome("create_config", caller, NoId,
                                    [name |-> name, rules |-> rules], GuardrailError, None)
                 /\ UNCHANGED guardrail_configs
            ELSE /\ guardrail_configs' =
                       InsertTemplate(guardrail_configs, nextConfigId,
                           GuardrailConfig(NULL, name, StoredRules(RulesValue(rules)), None, TRUE))
                 /\ last' = Outcome("create_config", caller, nextConfigId,
                                    [name |-> name, rules |-> rules], OK, nextConfigId)

\* get_config(name): fetchone() of the active rows of that name
get_config(name, caller) ==
    /\ IF ActiveByName(guardrail_configs, name) = {}
       THEN last' = Outcome("get_config", caller, NoId, name, GuardrailNotFoundError, None)
       ELSE \E id \in ActiveByName(guardrail_configs, name) :
               last' = Outcome("get_config", caller, id, name, OK, guardrail_configs[id])
    /\ UNCHANGED guardrails

\* get_guardrail_endpoint: get_config(name, tenant_id=admin.tenant_id), a
\* keyword get_config does not take
get_guardrail_endpoint(name, caller) ==
    /\ last' = Outcome("get_guardrail_endpoint", caller, NoId, name, TypeError, None)
    /\ UNCHANGED guardrails

\* update_config(config_id, rules, description, is_active), which
\* update_guardrail_endpoint calls with the id of the request
update_config(config_id, args, caller) ==
    IF args.rules # None /\ ~ValidRules(RulesValue(args.rules))
    THEN /\ last' = Outcome("update_config", caller, config_id, args, InvalidRulesError, None)
         /\ UNCHANGED guardrails
    ELSE IF args.rules = None /\ args.description = None /\ args.is_active = None
    THEN \* nothing to update
         /\ last' = Outcome("update_config", caller, config_id, args, OK, None)
         /\ UNCHANGED guardrails
    ELSE IF config_id \notin DOMAIN guardrail_configs
    THEN /\ last' = Outcome("update_config", caller, config_id, args,
                            GuardrailNotFoundError, None)
         /\ UNCHANGED guardrails
    ELSE /\ guardrail_configs' = [guardrail_configs EXCEPT ![config_id] =
               [@ EXCEPT !.rules = IF args.rules = None THEN @
                                   ELSE StoredRules(RulesValue(args.rules)),
                         !.description = IF args.description = None THEN @
                                         ELSE args.description,
                         !.is_active = IF args.is_active = None THEN @
                                       ELSE args.is_active = "true"]]
         /\ last' = Outcome("update_config", caller, config_id, args, OK, None)
         /\ UNCHANGED nextConfigId

\* delete_guardrail_endpoint: delete_config(config_id, soft=not hard,
\* tenant_id=admin.tenant_id), a keyword delete_config does not take
delete_guardrail_endpoint(config_id, hard, caller) ==
    /\ last' = Outcome("delete_guardrail_endpoint", caller, config_id, hard, TypeError, None)
    /\ UNCHANGED guardrails

GuardCreate ==
    /\ \E name \in GuardNames, rules \in RulesInputs, caller \in GuardTenants :
          create_config(name, rules, caller)
    /\ UNCHANGED <<store, conns, ledgerUnique, chat_store>>
GuardGet ==
    /\ \E name \in GuardNames, caller \in GuardTenants : get_config(name, caller)
    /\ UNCHANGED <<store, conns, ledgerUnique, chat_store>>
GuardGetEndpoint ==
    /\ \E name \in GuardNames, caller \in GuardTenants : get_guardrail_endpoint(name, caller)
    /\ UNCHANGED <<store, conns, ledgerUnique, chat_store>>
GuardUpdate ==
    /\ \E config_id \in 1..MaxConfigId, args \in UpdateInputs, caller \in GuardTenants :
          update_config(config_id, args, caller)
    /\ UNCHANGED <<store, conns, ledgerUnique, chat_store>>
GuardDelete ==
    /\ \E config_id \in 1..MaxConfigId, soft \in BOOLEAN, caller \in GuardTenants :
          delete_config(config_id, soft, caller)
    /\ UNCHANGED <<store, conns, ledgerUnique, chat_store>>
GuardDeleteEndpoint ==
    /\ \E config_id \in 1..MaxConfigId, hard \in BOOLEAN, caller \in GuardTenants :
          delete_guardrail_endpoint(config_id, hard, caller)
    /\ UNCHANGED <<store, conns, ledgerUnique, chat_store>>

NextGuard ==
    \/ GuardCreate
    \/ GuardGet
    \/ GuardGetEndpoint
    \/ GuardUpdate
    \/ GuardDelete
    \/ GuardDeleteEndpoint

SpecGuard == InitGuard /\ [][NextGuard]_vars

\* the active configs of a name in one scope
ActiveOf(g, name, tenant_id) ==
    {id \in ActiveByName(g, name) : g[id].tenant_id = tenant_id}

\* C18: a lookup by name for a tenant gives the tenant's own active config
\* of that name if there is one, else the system-scoped config of that
\* name, else fails with GuardrailNotFoundError; never a config that
\* another tenant owns.
C18_TenantLookup ==
    (last.op = "get_config") =>
        IF ActiveOf(guardrail_configs, last.arg, last.tenant) # {}
        THEN last.result = OK /\ last.id \in ActiveOf(guardrail_configs, last.arg, last.tenant)
        ELSE IF ActiveOf(guardrail_configs, last.arg, NULL) # {}
        THEN last.result = OK /\ last.id \in ActiveOf(guardrail_configs, last.arg, NULL)
        ELSE last.result = GuardrailNotFoundError

\* C19: only the owning tenant updates or deletes a config. A delete (soft
\* or hard) or an update by another tenant fails as not found and leaves
\* the config there, its rules and is_active as they were.
C19_OwnerOnlyWrites ==
    [][(/\ last'.op \in {"update_config", "delete_config", "delete_guardrail_endpoint"}
        /\ last'.id \in DOMAIN guardrail_configs
        /\ guardrail_configs[last'.id].tenant_id \in GuardTenants \ {last'.tenant}) =>
            /\ last'.result = GuardrailNotFoundError
            /\ guardrail_configs' = guardrail_configs]_vars

\* the inputs that are not a list of dictionaries each holding 'type'
InvalidRulesInputs == {"not_a_list", "not_a_dict", "no_type"}

\* C20: create_config and update_config validate the rules before any
\* write. Rules that are not a list, or hold an element that is not a
\* dictionary or lacks 'type', raise InvalidRulesError and leave the store
\* as it was: no config created, no rules, description or is_active changed.
C20_ValidateRulesFirst ==
    [][/\ (last'.op = "create_config" /\ last'.arg.rules \in InvalidRulesInputs) =>
             (last'.result = InvalidRulesError /\ UNCHANGED guardrails)
       /\ (last'.op = "update_config" /\ last'.arg.rules \in InvalidRulesInputs) =>
             (last'.result = InvalidRulesError /\ UNCHANGED guardrails)]_vars

\* C20 witness: an update carrying a new description, is_active = false and
\* a rule without 'type' was refused on a config that exists
C20_Witness ==
    /\ last.op = "update_config" /\ last.result = InvalidRulesError
    /\ last.id \in DOMAIN guardrail_configs
    /\ last.arg.rules = "no_type" /\ last.arg.description = "d"
    /\ guardrail_configs[last.id].is_active
    /\ guardrail_configs[last.id].description = None

\* ------------------------------------------------------------------------
\* Further properties of the store
\* ------------------------------------------------------------------------

\* C28: rollback_to_version(id, v) on a template the tenant does not see,
\* or whose ledger has no version v, fails with TemplateNotFoundError
\* before any write: templates, the ledger and the id sequence stay as
\* they were, so no version number is consumed.
C28_RollbackNotFound ==
    [][(/\ last'.op = "rollback"
        /\ \/ last'.id \notin DOMAIN templates
           \/ templates[last'.id].tenant_id # last'.tenant
           \/ last'.arg \notin VersionsOf(history, last'.id)) =>
            /\ last'.result = TemplateNotFoundError
            /\ UNCHANGED <<templates, history, nextId>>]_vars

\* C28 witness: version 3 was asked of the tenant's own template, which is
\* at version 2 with ledger rows 1 and 2
C28_Witness ==
    /\ last.op = "rollback" /\ last.result = TemplateNotFoundError /\ last.arg = 3
    /\ last.id \in DOMAIN templates
    /\ templates[last.id].tenant_id = last.tenant
    /\ templates[last.id].current_version = 2
    /\ VersionsOf(history, last.id) = {1, 2}

\* the situation in which list_templates bootstraps: a tenant that owns no
\* template, active or not, while a system template named 'default' exists
MustBootstrap(t, tenant_id) ==
    /\ tenant_id # NULL
    /\ \A id \in DOMAIN t : t[id].tenant_id # tenant_id
    /\ \E id \in DOMAIN t : t[id].tenant_id = NULL /\ t[id].name = DefaultName

\* C30: list_templates writes only when the tenant is not the system scope,
\* owns no template (inactive ones count) and a system 'default' exists:
\* then it adds one template and one ledger row. In every other case the
\* store is unchanged.
C30_ListWrites ==
    [][(last'.op = "list") =>
          IF MustBootstrap(templates, last'.tenant)
          THEN /\ nextId' = nextId + 1
               /\ DOMAIN templates' = DOMAIN templates \cup {nextId}
               /\ templates'[nextId].tenant_id = last'.tenant
               /\ \A id \in DOMAIN templates : templates'[id] = templates[id]
               /\ BagCardinality(history') = BagCardinality(history) + 1
          ELSE UNCHANGED <<templates, history, nextId>>]_vars

\* C30 witness: a list for a tenant whose only template is deactivated,
\* with a system 'default' present, wrote nothing and returned no row
C30_Witness ==
    /\ last.op = "list" /\ last.tenant = TenantA /\ last.arg = FALSE /\ last.ret = {}
    /\ \E id \in DOMAIN templates :
          templates[id].tenant_id = TenantA /\ ~templates[id].is_active
    /\ \E id \in DOMAIN templates :
          templates[id].tenant_id = NULL /\ templates[id].name = DefaultName
    /\ \A id \in DOMAIN templates : templates[id].tenant_id = TenantA => ~templates[id].is_active

\* ------------------------------------------------------------------------
\* SpecActive: the requests that flip is_active. The endpoints of main.py
\* run their own UPDATE; deactivate_template / activate_template of
\* prompts.py are the store's calls.
\* ------------------------------------------------------------------------
ActiveTenants == {TenantA, TenantB}

HTTPNotFound == "HTTPException(404)"

\* activate_template_endpoint / deactivate_template_endpoint:
\* UPDATE system_prompt SET is_active = ... WHERE id = %s
set_active_endpoint(op, template_id, admin_tenant, flag) ==
    /\ IF template_id \in DOMAIN templates
       THEN /\ templates' = [templates EXCEPT ![template_id].is_active = flag]
            /\ last' = Outcome(op, admin_tenant, template_id, None, OK, None)
       ELSE \* cur.rowcount == 0
            /\ UNCHANGED templates
            /\ last' = Outcome(op, admin_tenant, template_id, None, HTTPNotFound, None)
    /\ UNCHANGED <<history, nextId>>

activate_template_endpoint(template_id, admin_tenant) ==
    set_active_endpoint("activate_endpoint", template_id, admin_tenant, TRUE)

deactivate_template_endpoint(template_id, admin_tenant) ==
    set_active_endpoint("deactivate_endpoint", template_id, admin_tenant, FALSE)

ActiveCreate ==
    /\ \E content \in GoodContents, tenant_id \in ActiveTenants :
           create_template(CommonName, content, tenant_id)
    /\ UNCHANGED <<conns, ledgerUnique, guardrails, chat_store>>
ActiveUpdate ==
    /\ \E id \in Ids, content \in GoodContents, tenant_id \in ActiveTenants :
           update_template(id, content, tenant_id)
    /\ UNCHANGED <<conns, ledgerUnique, guardrails, chat_store>>
ActiveDeactivate ==
    /\ \E id \in Ids, tenant_id \in ActiveTenants : deactivate_template(id, tenant_id)
    /\ UNCHANGED <<conns, ledgerUnique, guardrails, chat_store>>
ActiveActivate ==
    /\ \E id \in Ids, tenant_id \in ActiveTenants : activate_template(id, tenant_id)
    /\ UNCHANGED <<conns, ledgerUnique, guardrails, chat_store>>
ActiveDeactivateEndpoint ==
    /\ \E id \in Ids, admin_tenant \in ActiveTenants : deactivate_template_endpoint(id, admin_tenant)
    /\ UNCHANGED <<conns, ledgerUnique, guardrails, chat_store>>
ActiveActivateEndpoint ==
    /\ \E id \in Ids, admin_tenant \in ActiveTenants : activate_template_endpoint(id, admin_tenant)
    /\ UNCHANGED <<conns, ledgerUnique, guardrails, chat_store>>

NextActive ==
    \/ ActiveCreate
    \/ ActiveUpdate
    \/ ActiveDeactivate
    \/ ActiveActivate
    \/ ActiveDeactivateEndpoint
    \/ ActiveActivateEndpoint

SpecActive == Init /\ [][NextActive]_vars

ActivationOps == {"activate", "deactivate", "activate_endpoint", "deactivate_endpoint"}

\* C29: is_active of a template changes only through an activate or
\* deactivate request of the tenant that owns it, and such a request
\* changes neither content, current_version nor the ledger.
C29_OwnerFlipsActive ==
    [][/\ \A id \in DOMAIN templates \cap DOMAIN templates' :
             templates'[id].is_active # templates[id].is_active =>
                 /\ last'.op \in ActivationOps
                 /\ last'.tenant = templates[id].tenant_id
       /\ last'.op \in ActivationOps =>
             /\ history' = history
             /\ DOMAIN templates' = DOMAIN templates
             /\ \A id \in DOMAIN templates :
                   /\ templates'[id].content = templates[id].content
                   /\ templates'[id].current_version = templates[id].current_version]_vars

\* ------------------------------------------------------------------------
\* memory.py: conversation history, user memory and user state; context.py:
\* the context assembler.
\* ------------------------------------------------------------------------
\* rows conversation_history holds at one time
MaxMessages == 3
\* the largest history_limit a caller passes
MaxLimit == 2
\* the latest time the clock reaches between two calls
MaxClock == 4

InvalidRoleError == "InvalidRoleError"
MemoryNotFoundError == "MemoryNotFoundError"

User1 == "user1"
User2 == "user2"
Users == {User1, User2}
StoredRoles == {"user", "assistant"}
\* the messages callers store: a user's, an assistant's, one of a role that
\* is not stored
Messages == {[role |-> "user", content |-> "m1"], [role |-> "assistant", content |-> "m2"],
             [role |-> "system", content |-> "m1"]}

\* add_message(user_id, role, content, tenant_id): created_at DEFAULT NOW(),
\* each call in a transaction of its own, begun later than the one before
add_message(user_id, role, content, tenant_id) ==
    IF role \notin StoredRoles
    THEN /\ last' = Outcome("add_message", tenant_id, NoId,
                            [user_id |-> user_id, role |-> role, content |-> content],
                            InvalidRoleError, None)
         /\ UNCHANGED <<conversation_history, clock>>
    ELSE /\ Len(conversation_history) < MaxMessages
         /\ clock' = clock + 1
         /\ conversation_history' = Append(conversation_history,
                [tenant_id |-> tenant_id, user_id |-> user_id, role |-> role,
                 content |-> content, created_at |-> clock'])
         /\ last' = Outcome("add_message", tenant_id, Len(conversation_history'),
                            [user_id |-> user_id, role |-> role, content |-> content],
                            OK, Len(conversation_history'))

\* WHERE {tenant_clause} AND user_id = %s: the ids of the rows
MessagesOf(h, user_id, tenant_id) ==
    {i \in 1..Len(h) : TenantClause(h[i].tenant_id, tenant_id) /\ h[i].user_id = user_id}

\* ORDER BY created_at DESC
RECURSIVE OrderByCreatedAtDesc(_, _)
OrderByCreatedAtDesc(h, S) ==
    IF S = {} THEN << >>
    ELSE LET i == CHOOSE i \in S : \A j \in S : h[j].created_at <= h[i].created_at
         IN <<i>> \o OrderByCreatedAtDesc(h, S \ {i})

\* LIMIT %s
Limit(rows, count) == SubSeq(rows, 1, IF count < Len(rows) THEN count ELSE Len(rows))

\* list(reversed(messages))
NotReversed(rows) == rows
Reversed(rows) == [k \in 1..Len(rows) |-> rows[Len(rows) + 1 - k]]

\* get_recent_messages(user_id, count, tenant_id)
get_recent_messages(h, user_id, count, tenant_id) ==
    LET ids == Reversed(Limit(OrderByCreatedAtDesc(h, MessagesOf(h, user_id, tenant_id)), count))
    IN [k \in 1..Len(ids) |->
           [id |-> ids[k], user_id |-> h[ids[k]].user_id, role |-> h[ids[k]].role,
            content |-> h[ids[k]].content, created_at |-> h[ids[k]].created_at]]

\* format_history_for_template(messages, "default")
format_history_for_template(messages) ==
    [k \in 1..Len(messages) |-> [role |-> messages[k].role, content |-> messages[k].content]]

\* format_history_as_text(messages, include_roles=True): "\n".join(lines)
RECURSIVE JoinLines(_, _)
JoinLines(messages, k) ==
    IF k > Len(messages) THEN << >>
    ELSE (IF k > 1 THEN <<"\n">> ELSE << >>)
         \o <<(IF messages[k].role = "user" THEN "User" ELSE "Assistant"), ": ",
              messages[k].content>>
         \o JoinLines(messages, k + 1)
format_history_as_text(messages) == JoinLines(messages, 1)

\* get_all_memory(user_id, tenant_id) through format_memory_for_template:
\* {mem.key: mem.value}
MemoryOf(m, user_id, tenant_id) ==
    LET rows == {r \in m : TenantClause(r.tenant_id, tenant_id) /\ r.user_id = user_id}
    IN [key \in {r.key : r \in rows} |->
           (CHOOSE r \in rows : r.key = key).value]

\* get_user_state(user_id, tenant_id): the rows fetchone() may return
get_user_state(u, user_id, tenant_id) ==
    {r \in u : TenantClause(r.tenant_id, tenant_id) /\ r.user_id = user_id}

\* build_context_variables(user_id, history_limit, include_memory,
\* include_state), the clock reading `now`: every read passes no tenant_id,
\* which is the system scope
ContextVariables(user_id, history_limit, include_memory, include_state, now) ==
    LET messages == get_recent_messages(conversation_history, user_id, history_limit, NULL)
        state == get_user_state(user_state, user_id, NULL)
    IN [user_id |-> user_id,
        history |-> format_history_for_template(messages),
        history_text |-> format_history_as_text(messages),
        memory |-> IF include_memory THEN MemoryOf(user_memory, user_id, NULL) ELSE << >>,
        state |-> IF include_state /\ state # {}
                  THEN (CHOOSE r \in state : TRUE).mode ELSE None,
        timestamp |-> now,
        has_history |-> Len(messages) > 0,
        message_count |-> Len(messages)]

build_context_variables(user_id, history_limit, include_memory, include_state) ==
    /\ last' = Outcome("build_context_variables", NULL, NoId,
                       [user_id |-> user_id, history_limit |-> history_limit], OK,
                       ContextVariables(user_id, history_limit, include_memory,
                                        include_state, clock))
    /\ UNCHANGED <<conversation_history, clock>>

\* set_memory(user_id, key, value, tenant_id): an upsert on
\* (COALESCE(tenant_id, 0), user_id, key)
SetMemory(m, user_id, key, value, tenant_id) ==
    {r \in m : ~(r.tenant_id = tenant_id /\ r.user_id = user_id /\ r.key = key)}
    \cup {[tenant_id |-> tenant_id, user_id |-> user_id, key |-> key, value |-> value]}

\* DELETE FROM user_memory WHERE {tenant_clause} AND user_id = %s AND key = %s
DeleteMemory(m, user_id, key, tenant_id) ==
    {r \in m : ~(TenantClause(r.tenant_id, tenant_id) /\ r.user_id = user_id /\ r.key = key)}

\* get_memory(user_id, key, tenant_id): the rows fetchone() may return
get_memory(m, user_id, key, tenant_id) ==
    {r \in m : TenantClause(r.tenant_id, tenant_id) /\ r.user_id = user_id /\ r.key = key}

\* set_user_state(user_id, mode, tenant_id): an upsert on
\* (COALESCE(tenant_id, 0), user_id) that writes mode only
SetUserState(u, user_id, mode, tenant_id) ==
    IF \E r \in u : r.tenant_id = tenant_id /\ r.user_id = user_id
    THEN {IF r.tenant_id = tenant_id /\ r.user_id = user_id
          THEN [r EXCEPT !.mode = mode] ELSE r : r \in u}
    ELSE u \cup {[tenant_id |-> tenant_id, user_id |-> user_id, mode |-> mode,
                  is_halted |-> FALSE]}

\* halt_user(user_id, reason, halted_by, tenant_id): inserts mode 'halted',
\* is_halted true; ON CONFLICT sets is_halted and the halt columns
HaltUser(u, user_id, tenant_id) ==
    IF \E r \in u : r.tenant_id = tenant_id /\ r.user_id = user_id
    THEN {IF r.tenant_id = tenant_id /\ r.user_id = user_id
          THEN [r EXCEPT !.is_halted = TRUE] ELSE r : r \in u}
    ELSE u \cup {[tenant_id |-> tenant_id, user_id |-> user_id, mode |-> "halted",
                  is_halted |-> TRUE]}

\* resume_user(user_id, tenant_id): UPDATE user_state SET is_halted = false
ResumeUser(u, user_id, tenant_id) ==
    {IF TenantClause(r.tenant_id, tenant_id) /\ r.user_id = user_id
     THEN [r EXCEPT !.is_halted = FALSE] ELSE r : r \in u}

\* is_conversation_halted(user_id, tenant_id)
is_conversation_halted(u, user_id, tenant_id) ==
    \E r \in get_user_state(u, user_id, tenant_id) : r.mode = "halted"

HaltMetadata == "__halt_metadata"

set_user_state(user_id, mode, tenant_id) ==
    /\ user_state' = SetUserState(user_state, user_id, mode, tenant_id)
    /\ last' = Outcome("set_user_state", tenant_id, NoId,
                       [user_id |-> user_id, mode |-> mode], OK, None)
    /\ UNCHANGED user_memory

\* halt_conversation(user_id, operator, reason, tenant_id)
halt_conversation(user_id, operator, tenant_id) ==
    /\ user_state' = SetUserState(user_state, user_id, "halted", tenant_id)
    /\ user_memory' = SetMemory(user_memory, user_id, HaltMetadata, operator, tenant_id)
    /\ last' = Outcome("halt_conversation", tenant_id, NoId, [user_id |-> user_id], OK, None)

\* resume_conversation(user_id, operator, tenant_id): delete_memory raises
\* when there is no halt metadata, after the state was committed
resume_conversation(user_id, operator, tenant_id) ==
    /\ user_state' = SetUserState(user_state, user_id, "active", tenant_id)
    /\ user_memory' = DeleteMemory(user_memory, user_id, HaltMetadata, tenant_id)
    /\ last' = Outcome("resume_conversation", tenant_id, NoId, [user_id |-> user_id],
                       IF get_memory(user_memory, user_id, HaltMetadata, tenant_id) = {}
                       THEN MemoryNotFoundError ELSE OK, None)

\* halt_user, as intervention_halt calls it
halt_user(user_id, halted_by, tenant_id) ==
    /\ user_state' = HaltUser(user_state, user_id, tenant_id)
    /\ last' = Outcome("halt_user", tenant_id, NoId, [user_id |-> user_id], OK, None)
    /\ UNCHANGED user_memory

\* resume_user, as intervention_resume calls it
resume_user(user_id, tenant_id) ==
    /\ user_state' = ResumeUser(user_state, user_id, tenant_id)
    /\ last' = Outcome("resume_user", tenant_id, NoId, [user_id |-> user_id], OK, None)
    /\ UNCHANGED user_memory

\* SpecHistory: messages are stored and the context of a user is built
HistoryAdd ==
    /\ \E owner \in {<<NULL, User1>>, <<NULL, User2>>, <<TenantA, User1>>},
          message \in Messages :
          add_message(owner[2], message.role, message.content, owner[1])
    /\ UNCHANGED <<store, conns, ledgerUnique, guardrails, user_memory, user_state, llm_calls>>
HistoryBuild ==
    /\ \E user_id \in Users, history_limit \in 0..MaxLimit :
          build_context_variables(user_id, history_limit, TRUE, TRUE)
    /\ UNCHANGED <<store, conns, ledgerUnique, guardrails, user_memory, user_state, llm_calls>>

NextHistory ==
    \/ HistoryAdd
    \/ HistoryBuild

SpecHistory == Init /\ [][NextHistory]_vars

\* the messages stored for a user of the system scope, as inserted
StoredFor(h, user_id) ==
    LET Mine(row) == row.tenant_id = NULL /\ row.user_id = user_id
    IN SelectSeq(h, Mine)

\* C21: the history of the context is the last min(m, history_limit) of
\* the user's m stored messages, oldest first as they were inserted;
\* message_count is that number and has_history says whether it is not 0.
C21_RecentHistory ==
    (last.op = "build_context_variables") =>
        LET mine == StoredFor(conversation_history, last.arg.user_id)
            m == Len(mine)
            n == IF m < last.arg.history_limit THEN m ELSE last.arg.history_limit
        IN /\ last.ret.history =
                  [k \in 1..n |-> [role |-> mine[m - n + k].role,
                                   content |-> mine[m - n + k].content]]
           /\ last.ret.message_count = n
           /\ last.ret.has_history = (n # 0)

\* C21 witness: of three messages of the user the context holds the last
\* two, which differ, the older one first
C21_Witness ==
    /\ last.op = "build_context_variables" /\ last.arg.history_limit = 2
    /\ Len(StoredFor(conversation_history, last.arg.user_id)) = 3
    /\ last.ret.message_count = 2
    /\ last.ret.history[1].content # last.ret.history[2].content
    /\ last.ret.history[2].content = conversation_history[3].content

\* ------------------------------------------------------------------------
\* Prompt assembly (context.py) and the chat turn (main.py)
\* ------------------------------------------------------------------------
\* prompts sent to the language model
MaxPrompts == 2

ContextBuildError == "ContextBuildError"
HTTPLocked == "HTTPException(423)"
HTTPServerError == "HTTPException(500)"
HTTPBadGateway == "HTTPException(502)"

\* templates over the variables of the context
ContentChat == <<"{{", "history_text", "}}", "|", "{{", "state", "}}", "|",
                 "{{", "current_message", "}}">>
ContentMemory == <<"{{", "memory", "}}", "|", "{{", "message_count", "}}">>
ContentStamp == <<"at ", "{{", "timestamp", "}}">>
ContentPersona == <<"{{", "persona", "}}">>

\* str() of a list of {'role': ..., 'content': ...}
RECURSIVE StrHistoryFrom(_, _)
StrHistoryFrom(entries, k) ==
    IF k > Len(entries) THEN << >>
    ELSE (IF k > 1 THEN <<", ">> ELSE << >>)
         \o <<"{'role': '", entries[k].role, "', 'content': '", entries[k].content, "'}">>
         \o StrHistoryFrom(entries, k + 1)
StrHistory(entries) == <<"[">> \o StrHistoryFrom(entries, 1) \o <<"]">>

\* the keys of user_memory in the order of ORDER BY key
KeyOrder == <<HaltMetadata, "a", "b">>

\* str() of the memory dictionary
RECURSIVE StrMemoryFrom(_, _, _)
StrMemoryFrom(memory, k, first) ==
    IF k > Len(KeyOrder) THEN << >>
    ELSE IF KeyOrder[k] \notin DOMAIN memory THEN StrMemoryFrom(memory, k + 1, first)
    ELSE (IF first THEN << >> ELSE <<", ">>)
         \o <<"'", KeyOrder[k], "': '", memory[KeyOrder[k]], "'">>
         \o StrMemoryFrom(memory, k + 1, FALSE)
StrMemory(memory) == <<"{">> \o StrMemoryFrom(memory, 1, TRUE) \o <<"}">>

\* the variables as template.render(**variables) prints them
RenderedVariables(variables) ==
    [name \in DOMAIN variables |->
        CASE name = "history" -> StrHistory(variables.history)
          [] name = "memory" -> StrMemory(variables.memory)
          [] name = "timestamp" -> <<ToString(variables.timestamp)>>
          [] name = "message_count" -> <<ToString(variables.message_count)>>
          [] name = "has_history" -> <<IF variables.has_history THEN "True" ELSE "False">>
          [] name = "history_text" -> variables.history_text
          [] OTHER -> <<variables[name]>>]

\* variables.update(additional_variables)
UpdateVariables(variables, additional_variables) ==
    [name \in DOMAIN variables \cup DOMAIN additional_variables |->
        IF name \in DOMAIN additional_variables
        THEN additional_variables[name] ELSE variables[name]]

\* build_prompt_context(user_id, template_name, history_limit,
\* additional_variables), reading the clock as `now`: the outcomes of the
\* call. get_template_by_name and render_template get no tenant_id.
build_prompt_context(user_id, template_name, history_limit, additional_variables, now) ==
    IF MatchesName(templates, template_name, NULL) = {}
    THEN {[result |-> TemplateNotFoundError, ret |-> << >>, id |-> NoId]}
    ELSE {LET variables == UpdateVariables(ContextVariables(user_id, history_limit, TRUE, TRUE, now),
                                   additional_variables)
              r == _render_content(templates[id].content, RenderedVariables(variables))
          IN IF r.result = OK
             THEN [result |-> OK, ret |-> r.ret, id |-> id]
             ELSE [result |-> ContextBuildError, ret |-> << >>, id |-> id]
          : id \in MatchesName(templates, template_name, NULL)}

\* the parameters of build_prompt_context_simple
SimpleParameters == {"user_id", "template_name", "user_message"}

\* a Python call binds only keywords the function declares
BindsKeywords(parameters, keywords) == keywords \subseteq parameters

\* build_prompt_context_simple(user_id, template_name, user_message) called
\* with the further keywords `keywords`
build_prompt_context_simple(user_id, template_name, user_message, keywords, now) ==
    IF ~BindsKeywords(SimpleParameters, {"user_id", "template_name", "user_message"} \cup keywords)
    THEN {[result |-> TypeError, ret |-> << >>, id |-> NoId]}
    ELSE build_prompt_context(user_id, template_name, 10,
                              [n \in {"current_message"} |-> user_message], now)

\* the absent guardrail_config of a chat request
NoGuardrailConfig == << >>

\* try: prompt = build_prompt_context_simple(...) except Exception: raise
\* HTTPException(500)
BuildFailedIgnored(r) == FALSE
BuildFailed(r) == r.result # OK

\* chat(request, auth): one turn, from the halted check to the stored messages
chat(tenant_id, user_id, template_name, message, guardrail_config) ==
    LET arg == [user_id |-> user_id, template_name |-> template_name,
                message |-> message, guardrail_config |-> guardrail_config]
    IN IF is_conversation_halted(user_state, user_id, tenant_id)
       THEN /\ last' = Outcome("chat", tenant_id, NoId, arg, HTTPLocked, None)
            /\ UNCHANGED <<conversation_history, clock, llm_calls>>
       ELSE IF MatchesName(templates, template_name, tenant_id) = {}
       THEN /\ last' = Outcome("chat", tenant_id, NoId, arg, HTTPNotFound, None)
            /\ UNCHANGED <<conversation_history, clock, llm_calls>>
       ELSE \E r \in build_prompt_context_simple(user_id, template_name, message,
                                                 {"guardrail_config", "tenant_id"}, clock) :
              IF BuildFailed(r)
              THEN /\ last' = Outcome("chat", tenant_id, NoId, arg, HTTPServerError, r.result)
                   /\ UNCHANGED <<conversation_history, clock, llm_calls>>
              ELSE \* call_mistral_simple(prompt), which answers or raises
                   /\ Len(llm_calls) < MaxPrompts
                   /\ llm_calls' = Append(llm_calls, r.ret)
                   /\ \E answered \in BOOLEAN :
                        IF ~answered
                        THEN /\ last' = Outcome("chat", tenant_id, NoId, arg, HTTPBadGateway, None)
                             /\ UNCHANGED <<conversation_history, clock>>
                        ELSE /\ Len(conversation_history) + 2 <= MaxMessages
                             /\ clock' = clock + 2
                             /\ conversation_history' = conversation_history \o
                                  <<[tenant_id |-> tenant_id, user_id |-> user_id,
                                     role |-> "user", content |-> message,
                                     created_at |-> clock + 1],
                                    [tenant_id |-> tenant_id, user_id |-> user_id,
                                     role |-> "assistant", content |-> "response",
                                     created_at |-> clock + 2]>>
                             /\ last' = Outcome("chat", tenant_id, NoId, arg, OK, "response")

\* SpecHalt: one user of two tenants is halted and resumed through both
\* pairs of operations, and chats
HaltTenants == {TenantA, TenantB}

HaltCreate ==
    /\ create_template(CommonName, ContentB, TenantA)
    /\ UNCHANGED <<conns, ledgerUnique, guardrails, chat_store>>
HaltSetState ==
    /\ \E tenant_id \in HaltTenants : set_user_state(User1, "active", tenant_id)
    /\ UNCHANGED <<store, conns, ledgerUnique, guardrails, conversation_history, clock, llm_calls>>
HaltByConversation ==
    /\ \E tenant_id \in HaltTenants : halt_conversation(User1, "operator", tenant_id)
    /\ UNCHANGED <<store, conns, ledgerUnique, guardrails, conversation_history, clock, llm_calls>>
HaltResumeConversation ==
    /\ \E tenant_id \in HaltTenants : resume_conversation(User1, "operator", tenant_id)
    /\ UNCHANGED <<store, conns, ledgerUnique, guardrails, conversation_history, clock, llm_calls>>
HaltByUser ==
    /\ \E tenant_id \in HaltTenants : halt_user(User1, "operator", tenant_id)
    /\ UNCHANGED <<store, conns, ledgerUnique, guardrails, conversation_history, clock, llm_calls>>
HaltResumeUser ==
    /\ \E tenant_id \in HaltTenants : resume_user(User1, tenant_id)
    /\ UNCHANGED <<store, conns, ledgerUnique, guardrails, conversation_history, clock, llm_calls>>
HaltChat ==
    /\ \E tenant_id \in HaltTenants :
          chat(tenant_id, User1, CommonName, "m1", NoGuardrailConfig)
    /\ UNCHANGED <<store, conns, ledgerUnique, guardrails, user_memory, user_state>>

NextHalt ==
    \/ HaltCreate
    \/ HaltSetState
    \/ HaltByConversation
    \/ HaltResumeConversation
    \/ HaltByUser
    \/ HaltResumeUser
    \/ HaltChat

SpecHalt == Init /\ [][NextHalt]_vars

HaltOps == {"halt_conversation", "halt_user"}
ResumeOps == {"resume_conversation", "resume_user"}

\* C26: once a user is halted in a tenant by halt_conversation or
\* halt_user, whatever state row the user had, the chat request that comes
\* next for that tenant and user is refused as halted (423), sends nothing
\* to the language model and stores no message.
C26_HaltBlocksChat ==
    [][(/\ last.op \in HaltOps /\ last'.op = "chat"
        /\ last'.tenant = last.tenant /\ last'.arg.user_id = last.arg.user_id) =>
            /\ last'.result = HTTPLocked
            /\ UNCHANGED <<conversation_history, llm_calls>>]_vars

\* C27: in the state reached by a halt followed by a resume of the same
\* user, through either resume operation, the halted check of chat gives
\* false.
C27_ResumeUnblocks ==
    [][(/\ last.op \in HaltOps /\ last'.op \in ResumeOps
        /\ last'.tenant = last.tenant /\ last'.arg.user_id = last.arg.user_id) =>
            ~is_conversation_halted(user_state', last'.arg.user_id, last'.tenant)]_vars

\* ------------------------------------------------------------------------
\* SpecAssemble: templates, messages, memory and state are stored under the
\* system scope and under tenant A; a prompt is assembled on behalf of
\* tenant A, by build_prompt_context_simple and by a chat turn.
\* ------------------------------------------------------------------------
AssembleTenants == {NULL, TenantA}
AssembleContents == {ContentChat, ContentMemory, ContentPersona}

\* what each scope stores for user1, so that a prompt shows whose it read
StoredMessage(tenant_id) ==
    IF tenant_id = NULL THEN [role |-> "user", content |-> "m1"]
    ELSE [role |-> "assistant", content |-> "m2"]
StoredValue(tenant_id) == IF tenant_id = NULL THEN "v1" ELSE "v2"
StoredMode(tenant_id) == IF tenant_id = NULL THEN "casual" ELSE "active"

\* build_prompt_context_simple(user_id, template_name, user_message), called
\* on behalf of `caller`
assemble(caller, user_id, template_name, user_message) ==
    /\ \E r \in build_prompt_context_simple(user_id, template_name, user_message, {}, clock) :
          last' = Outcome("build_prompt_context_simple", caller, r.id,
                          [user_id |-> user_id, template_name |-> template_name,
                           message |-> user_message], r.result, r.ret)
    /\ UNCHANGED chat_store

AssembleCreate ==
    /\ \E content \in AssembleContents, tenant_id \in AssembleTenants :
          create_template(CommonName, content, tenant_id)
    /\ UNCHANGED <<conns, ledgerUnique, guardrails, chat_store>>
AssembleAdd ==
    /\ \E tenant_id \in AssembleTenants :
          add_message(User1, StoredMessage(tenant_id).role, StoredMessage(tenant_id).content,
                      tenant_id)
    /\ UNCHANGED <<store, conns, ledgerUnique, guardrails, user_memory, user_state, llm_calls>>
AssembleSetMemory ==
    /\ \E tenant_id \in AssembleTenants :
          /\ user_memory' = SetMemory(user_memory, User1, "a", StoredValue(tenant_id), tenant_id)
          /\ last' = Outcome("set_memory", tenant_id, NoId, [user_id |-> User1], OK, None)
    /\ UNCHANGED <<store, conns, ledgerUnique, guardrails, conversation_history, user_state,
                   clock, llm_calls>>
AssembleSetState ==
    /\ \E tenant_id \in AssembleTenants : set_user_state(User1, StoredMode(tenant_id), tenant_id)
    /\ UNCHANGED <<store, conns, ledgerUnique, guardrails, conversation_history, clock, llm_calls>>
AssembleBuild ==
    /\ assemble(TenantA, User1, CommonName, "hello")
    /\ UNCHANGED <<store, conns, ledgerUnique, guardrails>>
AssembleChat ==
    /\ \E guardrail_config \in {NoGuardrailConfig, CommonName} :
          chat(TenantA, User1, CommonName, "hello", guardrail_config)
    /\ UNCHANGED <<store, conns, ledgerUnique, guardrails, user_memory, user_state>>

NextAssemble ==
    \/ AssembleCreate
    \/ AssembleAdd
    \/ AssembleSetMemory
    \/ AssembleSetState
    \/ AssembleBuild
    \/ AssembleChat

SpecAssemble == Init /\ [][NextAssemble]_vars

\* the pieces of a text
Pieces(text) == {text[i] : i \in DOMAIN text}

\* C22: a prompt assembled for tenant A is made of tenant A's data: the
\* template is the tenant's, and no message, memory value or state stored
\* only under another scope appears in it.
C22_AssemblyReadsOwnTenant ==
    (last.op = "build_prompt_context_simple" /\ last.result = OK) =>
        /\ templates[last.id].tenant_id = last.tenant
        /\ \A row \in {conversation_history[i] : i \in DOMAIN conversation_history} :
              row.content \in Pieces(last.ret) =>
                  \E own \in {conversation_history[i] : i \in DOMAIN conversation_history} :
                      /\ own.content = row.content
                      /\ own.tenant_id = last.tenant /\ own.user_id = last.arg.user_id
        /\ \A row \in user_memory :
              row.value \in Pieces(last.ret) =>
                  \E own \in user_memory :
                      /\ own.value = row.value
                      /\ own.tenant_id = last.tenant /\ own.user_id = last.arg.user_id
        /\ \A row \in user_state :
              row.mode \in Pieces(last.ret) =>
                  \E own \in user_state :
                      /\ own.mode = row.mode
                      /\ own.tenant_id = last.tenant /\ own.user_id = last.arg.user_id

\* the names build_context_variables and build_prompt_context_simple define
ContextNames == {"user_id", "history", "history_text", "memory", "state", "timestamp",
                 "has_history", "message_count", "current_message"}

\* a stage of the turn has to fail: the tenant has no template of the name,
\* the template refers to a variable the context does not define, or the
\* request names a guardrail config that does not exist
StageMustFail(t, g, tenant_id, template_name, guardrail_config) ==
    \/ \A id \in DOMAIN t : ~(t[id].tenant_id = tenant_id /\ t[id].name = template_name)
    \/ \E id \in DOMAIN t :
          /\ t[id].tenant_id = tenant_id /\ t[id].name = template_name
          /\ ~(References(t[id].content) \subseteq ContextNames)
    \/ /\ guardrail_config # NoGuardrailConfig
       /\ \A id \in DOMAIN g : g[id].name # guardrail_config

\* C23: the pipeline is fail-closed. A chat turn in which a stage fails
\* ends with an error, sends nothing to the language model and stores no
\* message; a failed assembly returns no text; messages are stored only by
\* a turn whose call of the language model succeeded.
C23_FailClosed ==
    [][/\ (/\ last'.op = "chat"
           /\ StageMustFail(templates, guardrail_configs, last'.tenant,
                            last'.arg.template_name, last'.arg.guardrail_config)) =>
              /\ last'.result \in {HTTPNotFound, HTTPServerError}
              /\ UNCHANGED <<conversation_history, llm_calls>>
       /\ (last'.op = "chat" /\ last'.result # OK) =>
              UNCHANGED conversation_history
       /\ (last'.op = "chat" /\ conversation_history' # conversation_history) =>
              /\ last'.result = OK
              /\ Len(llm_calls') = Len(llm_calls) + 1
       /\ (last'.op = "build_prompt_context_simple" /\ last'.result # OK) =>
              /\ last'.ret = << >>
              /\ UNCHANGED <<conversation_history, llm_calls>>]_vars

\* C23 witness: with a template of the tenant and messages stored, a turn
\* naming a guardrail config that does not exist ended with 500
C23_Witness ==
    /\ last.op = "chat" /\ last.result = HTTPServerError
    /\ last.arg.guardrail_config = CommonName
    /\ \E id \in DOMAIN templates :
          /\ templates[id].tenant_id = last.tenant /\ templates[id].name = last.arg.template_name
          /\ templates[id].content = ContentChat
    /\ llm_calls = << >>
    /\ Len(conversation_history) = 2

\* ------------------------------------------------------------------------
\* SpecStamp: the same prompt is assembled at different times
\* ------------------------------------------------------------------------
\* time passes between two calls
Tick ==
    /\ clock < MaxClock
    /\ clock' = clock + 1
    /\ UNCHANGED <<store, last, conns, ledgerUnique, guardrails,
                   conversation_history, user_memory, user_state, llm_calls>>

StampCreate ==
    /\ \E content \in {ContentStamp, ContentChat} : create_template(CommonName, content, NULL)
    /\ UNCHANGED <<conns, ledgerUnique, guardrails, chat_store>>
StampUpdate ==
    /\ \E id \in Ids, content \in {ContentStamp, ContentChat} : update_template(id, content, NULL)
    /\ UNCHANGED <<conns, ledgerUnique, guardrails, chat_store>>
StampAdd ==
    /\ add_message(User1, "user", "m1", NULL)
    /\ UNCHANGED <<store, conns, ledgerUnique, guardrails, user_memory, user_state, llm_calls>>
StampBuild ==
    /\ assemble(NULL, User1, CommonName, "hello")
    /\ UNCHANGED <<store, conns, ledgerUnique, guardrails>>

NextStamp ==
    \/ Tick
    \/ StampCreate
    \/ StampUpdate
    \/ StampAdd
    \/ StampBuild

SpecStamp == Init /\ [][NextStamp]_vars

\* C24: two assemblies with the same template version, the same stored
\* history, memory and state, the same current message and the same
\* guardrail config give the same prompt, whatever the time of each.
C24_Reproducible ==
    [][(/\ last.op = "build_prompt_context_simple" /\ last.result = OK
        /\ last'.op = "build_prompt_context_simple" /\ last'.result = OK
        /\ last'.arg = last.arg /\ last'.id = last.id
        /\ UNCHANGED <<templates, guardrail_configs, conversation_history,
                       user_memory, user_state>>) =>
            last'.ret = last.ret]_vars

\* ------------------------------------------------------------------------
\* sentiment.py: the affect summary; SpecAffect: a prompt is assembled for
\* a session with or without sentiment tracking
\* ------------------------------------------------------------------------
\* affect vectors, each dimension in hundredths
AffectNeutral == [valence |-> 0, arousal |-> 50, dominance |-> 50, trust |-> 50,
                  engagement |-> 50]
AffectGuarded == [valence |-> 0, arousal |-> 50, dominance |-> 50, trust |-> 20,
                  engagement |-> 20]
AffectUpbeat == [valence |-> 60, arousal |-> 80, dominance |-> 50, trust |-> 80,
                 engagement |-> 80]
AffectVectors == {AffectNeutral, AffectGuarded, AffectUpbeat}
\* what get_recent_affect returns for a session
AffectLists == UNION {[1..n -> AffectVectors] : n \in 0..2}

RECURSIVE SumOf(_, _, _)
SumOf(affects, dimension, k) ==
    IF k > Len(affects) THEN 0
    ELSE affects[k][dimension] + SumOf(affects, dimension, k + 1)

\* avg.<dimension> > bound, avg being sum / len
Above(affects, dimension, bound) == SumOf(affects, dimension, 1) > bound * Len(affects)
Below(affects, dimension, bound) == SumOf(affects, dimension, 1) < bound * Len(affects)

\* ', '.join(parts)
RECURSIVE JoinParts(_, _)
JoinParts(parts, k) ==
    IF k > Len(parts) THEN << >>
    ELSE (IF k > 1 THEN <<", ">> ELSE << >>) \o <<parts[k]>> \o JoinParts(parts, k + 1)

\* generate_sentiment_context(session_id), get_recent_affect having
\* returned `affects`
generate_sentiment_context(affects) ==
    IF affects = << >> THEN << >>
    ELSE LET parts ==
                 (IF Above(affects, "valence", 30) THEN <<"positive and upbeat">>
                  ELSE IF Below(affects, "valence", -30) THEN <<"frustrated or upset">>
                  ELSE << >>)
              \o (IF Above(affects, "arousal", 70) THEN <<"energetic/excited">>
                  ELSE IF Below(affects, "arousal", 30) THEN <<"calm/subdued">>
                  ELSE << >>)
              \o (IF Above(affects, "trust", 70) THEN <<"open and trusting">>
                  ELSE IF Below(affects, "trust", 30) THEN <<"guarded">>
                  ELSE << >>)
              \o (IF Above(affects, "engagement", 70) THEN <<"highly engaged">>
                  ELSE IF Below(affects, "engagement", 30) THEN <<"disengaged">>
                  ELSE << >>)
         IN IF parts = << >> THEN <<"[User sentiment: neutral]">>
            ELSE <<"[User sentiment: ">> \o JoinParts(parts, 1) \o <<"]">>

\* the session a turn belongs to: whether it tracks sentiment, whether the
\* affect store answers, and the recent affect it holds
Sessions == [sentiment_enabled : BOOLEAN, provider_ok : BOOLEAN, affects : AffectLists]

\* build_prompt_context_simple for a turn of `session`: the session is not
\* a parameter and generate_sentiment_context is not called
assemble_in_session(session, user_id, template_name, user_message) ==
    /\ \E r \in build_prompt_context_simple(user_id, template_name, user_message, {}, clock) :
          last' = Outcome("assemble_in_session", NULL, r.id,
                          [user_id |-> user_id, template_name |-> template_name,
                           message |-> user_message, session |-> session],
                          r.result, r.ret)
    /\ UNCHANGED chat_store

AffectCreate ==
    /\ \E content \in {ContentChat, ContentPersona} : create_template(CommonName, content, NULL)
    /\ UNCHANGED <<conns, ledgerUnique, guardrails, chat_store>>
AffectAdd ==
    /\ add_message(User1, "user", "m1", NULL)
    /\ UNCHANGED <<store, conns, ledgerUnique, guardrails, user_memory, user_state, llm_calls>>
AffectBuild ==
    /\ \E session \in Sessions : assemble_in_session(session, User1, CommonName, "hello")
    /\ UNCHANGED <<store, conns, ledgerUnique, guardrails>>

NextAffect ==
    \/ AffectCreate
    \/ AffectAdd
    \/ AffectBuild

SpecAffect == Init /\ [][NextAffect]_vars

\* the text occurs in the prompt
Occurs(text, prompt) ==
    \E i \in 1..(Len(prompt) - Len(text) + 1) : SubSeq(prompt, i, i + Len(text) - 1) = text

\* C25: affect injection is the one stage that may be left out. For a
\* session that tracks sentiment, a summary that is produced is put into
\* the prompt after rendering; when none can be produced (the provider
\* fails or holds no data) the assembly still ends, with the prompt as
\* rendered.
C25_AffectInjected ==
    (last.op = "assemble_in_session" /\ last.result = OK) =>
        LET session == last.arg.session
            summary == IF session.sentiment_enabled /\ session.provider_ok
                       THEN generate_sentiment_context(session.affects) ELSE << >>
        IN summary # << >> => Occurs(summary, last.ret)

====
